---- MODULE Spec2Model ----
(***************************************************************************)
(* State-machine model of the prefix-system program                        *)
(* (programs/prefix-system/src).  Every instruction handler is one action. *)
(* A transaction whose handler returns an error is rolled back by the      *)
(* runtime, so it is a stuttering step; the error it returns is the value  *)
(* of the handler's *_result operator in the state it is issued in.        *)
(* Rent of data accounts and the updated_at/bump bookkeeping fields are    *)
(* not modelled.                                                           *)
(***************************************************************************)
EXTENDS Integers, Sequences, FiniteSets, TLC

VARIABLES
    fee_registry,     \* FeeRegistry singleton, or NoAccount before initialize
    verifiers,        \* VerifiersList singleton, or NoAccount before initialize
    treasury,         \* lamports held by the treasury PDA
    lamports,         \* lamports of every principal (wallet accounts)
    prefix_accounts,  \* live PrefixAccount PDAs: prefix string -> PrefixAccount
    now,              \* Clock::get()?.unix_timestamp
    last,             \* the last instruction that succeeded, with its arguments
    sig               \* one call of verify_ed25519_signature: inputs and result

vars == <<fee_registry, verifiers, treasury, lamports, prefix_accounts, now, last, sig>>

(***************************************************************************)
(* Bounds of the model                                                     *)
(***************************************************************************)
MaxFee == 1
MaxPeriods == 1
InitLamports == 1
TreasuryRent == 1
MaxBatchLen == 2
DirSlack == 2

(***************************************************************************)
(* Program constants (constants.rs)                                        *)
(***************************************************************************)
MAX_PREFIX_LEN == 12
MIN_PREFIX_LEN == 3
MAX_URI_LEN == 255
MAX_AUTH_KEYS == 10
MAX_VERIFIERS == 256
MAX_EXPIRY_DURATION == 14 * 24 * 60 * 60
PUBKEY_SIZE == 32

(***************************************************************************)
(* Principals, byte strings                                                *)
(***************************************************************************)
Pubkeys == {"admin", "alice", "bob", "vera"}
Owners == {"alice", "bob"}
VerifierCandidates == {"vera"}
NoKey == "none"

KeyCode(pk) ==
    CASE pk = "admin" -> 1
      [] pk = "alice" -> 2
      [] pk = "bob" -> 3
      [] pk = "vera" -> 4
      [] OTHER -> 5

\* Pubkey::as_ref(): the 32 bytes of a key; distinct keys share no byte
KeyBytes == [pk \in Pubkeys |-> [i \in 1..PUBKEY_SIZE |-> KeyCode(pk) * PUBKEY_SIZE + (i - 1)]]

as_ref(pk) == KeyBytes[pk]

ZeroHash == [i \in 1..32 |-> 0]
H1 == [i \in 1..32 |-> 192 + (i - 1)]
H2 == [i \in 1..32 |-> 224 + (i - 1)]
R1 == [i \in 1..32 |-> 1]
R2 == [i \in 1..32 |-> 2]
MetadataHashes == {H1, H2}
RefHashes == {R1}

(***************************************************************************)
(* Strings are sequences of one-character strings                          *)
(***************************************************************************)
Lower == <<"a","b","c","d","e","f","g","h","i","j","k","l","m",
           "n","o","p","q","r","s","t","u","v","w","x","y","z">>
Upper == <<"A","B","C","D","E","F","G","H","I","J","K","L","M",
           "N","O","P","Q","R","S","T","U","V","W","X","Y","Z">>
Digits == <<"0","1","2","3","4","5","6","7","8","9">>

Range(s) == {s[i] : i \in DOMAIN s}
LowerCase == Range(Lower)
AlphaNumeric == Range(Lower) \cup Range(Upper) \cup Range(Digits)
UpperOf == [c \in LowerCase |-> Upper[CHOOSE i \in DOMAIN Lower : Lower[i] = c]]

to_ascii_uppercase(c) == IF c \in LowerCase THEN UpperOf[c] ELSE c

is_ascii_alphanumeric(c) == c \in AlphaNumeric

starts_with(s, p) == Len(s) >= Len(p) /\ SubSeq(s, 1, Len(p)) = p

\* utils.rs normalize_prefix: [ok, value]
normalize_prefix(input) ==
    LET upper == [i \in DOMAIN input |-> to_ascii_uppercase(input[i])]
    IN  IF Len(upper) < MIN_PREFIX_LEN \/ Len(upper) > MAX_PREFIX_LEN
        THEN [ok |-> FALSE, value |-> <<>>]
        ELSE IF ~(\A i \in DOMAIN upper : is_ascii_alphanumeric(upper[i]))
        THEN [ok |-> FALSE, value |-> <<>>]
        ELSE [ok |-> TRUE, value |-> upper]

HttpsScheme == <<"h","t","t","p","s",":","/","/">>
IpfsScheme == <<"i","p","f","s",":","/","/">>

\* utils.rs validate_metadata: "Ok" or the error code
validate_metadata(metadata_uri, metadata_hash) ==
    IF Len(metadata_hash) # 32 THEN "InvalidMetadataHashLength"
    ELSE IF Len(metadata_uri) > MAX_URI_LEN THEN "InvalidMetadataUri"
    ELSE IF ~(starts_with(metadata_uri, HttpsScheme) \/ starts_with(metadata_uri, IpfsScheme))
    THEN "InvalidMetadataUri"
    ELSE "Ok"

(***************************************************************************)
(* Transaction batches and the Ed25519 attestation instruction             *)
(***************************************************************************)
ED25519_PROGRAM_ID == "Ed25519SigVerify"
OTHER_PROGRAM_ID == "OtherProgram"

SignatureBytes == [i \in 1..64 |-> 9]

\* Instruction data as the standard client helper lays it out (utils.rs NOTE):
\* 2 bytes count/padding, the 14-byte offsets structure (u16 little endian,
\* instruction index 0xFFFF = this instruction), public key, signature, message
Ed25519Data(pk_bytes, message) ==
    <<1, 0, 48, 0, 255, 255, 16, 0, 255, 255, 112, 0,
      Len(message) % 256, Len(message) \div 256, 255, 255>>
    \o pk_bytes \o SignatureBytes \o message

Ed25519Instruction(signer, message) ==
    [program_id |-> ED25519_PROGRAM_ID, data |-> Ed25519Data(as_ref(signer), message)]

\* What the signature-verification program checked for an instruction that the
\* runtime let through: the key and the message its offsets structure points at
Ed25519Signer(data) ==
    LET off == data[7] + 256 * data[8]
    IN  SubSeq(data, off + 1, off + PUBKEY_SIZE)

Ed25519Message(data) ==
    LET off == data[11] + 256 * data[12]
        size == data[13] + 256 * data[14]
    IN  SubSeq(data, off + 1, off + size)

\* data.windows(32).any(|w| w == needle)
windows_any(data, needle) ==
    \E k \in 1..(Len(data) - 31) : \A j \in 1..32 : data[k + j - 1] = needle[j]

\* utils.rs 66-74: the test one instruction of the batch must pass
MutIxAcceptedKeyOnly(ix, owner_pubkey, metadata_hash) ==
    /\ ix.program_id = ED25519_PROGRAM_ID
    /\ windows_any(ix.data, as_ref(owner_pubkey))

ix_accepted(ix, owner_pubkey, metadata_hash) ==
    /\ ix.program_id = ED25519_PROGRAM_ID
    /\ windows_any(ix.data, as_ref(owner_pubkey))
    /\ windows_any(ix.data, metadata_hash)

\* utils.rs 57-81: the loop; the index of the instruction it breaks on, 0 if
\* load_instruction_at_checked fails first (found = false)
RECURSIVE scan_instructions(_, _, _, _)
scan_instructions(instructions_sysvar, i, owner_pubkey, metadata_hash) ==
    IF i > Len(instructions_sysvar) THEN 0
    ELSE IF ix_accepted(instructions_sysvar[i], owner_pubkey, metadata_hash) THEN i
    ELSE scan_instructions(instructions_sysvar, i + 1, owner_pubkey, metadata_hash)

verify_ed25519_signature(instructions_sysvar, owner_pubkey, metadata_hash) ==
    IF scan_instructions(instructions_sysvar, 1, owner_pubkey, metadata_hash) = 0
    THEN "InvalidEd25519Signature"
    ELSE "Ok"

(***************************************************************************)
(* Inputs the instructions are called with                                 *)
(***************************************************************************)
PrefixABC == <<"A", "B", "C">>
PrefixLower == <<"a", "b", "c">>
PrefixShort == <<"A", "B">>
PrefixDash == <<"A", "B", "-">>
PrefixLong == [i \in 1..(MAX_PREFIX_LEN + 1) |-> "A"]
PrefixInputs == {PrefixABC, PrefixLower, PrefixShort, PrefixDash, PrefixLong}
Prefixes == {PrefixABC, PrefixLower}

UriHttps == HttpsScheme \o <<"a">>
UriIpfs == IpfsScheme \o <<"b">>
UriHttp == <<"h", "t", "t", "p", ":", "/", "/", "a">>
UriLong == HttpsScheme \o [i \in 1..(MAX_URI_LEN - 7) |-> "a"]
MetadataInputs == {<<UriHttps, H1>>, <<UriIpfs, H2>>, <<UriHttp, H1>>, <<UriLong, H2>>}
Metadata == {<<UriHttps, H1>>, <<UriIpfs, H2>>, <<UriHttp, H1>>}

TooManyKeys == [i \in 1..(MAX_AUTH_KEYS + 1) |-> "vera"]
FullKeys == [i \in 1..MAX_AUTH_KEYS |-> "vera"]
AuthorityKeyInputs == {<< >>, <<"vera">>, FullKeys, TooManyKeys}
AuthorityKeys == {<< >>, FullKeys, TooManyKeys}

\* an attestation signed by vera over a message that embeds alice's key and H1
ForgedInstruction == Ed25519Instruction("vera", as_ref("alice") \o H1)
\* an attestation alice signed over a longer message that ends with H2
EmbeddedInstruction == Ed25519Instruction("alice", <<7>> \o H2)
\* an instruction of another program carrying the same bytes as a proper one
OtherInstruction ==
    [program_id |-> OTHER_PROGRAM_ID, data |-> Ed25519Data(as_ref("alice"), H1)]

Batches ==
    {<< >>,
     <<Ed25519Instruction("alice", H1), Ed25519Instruction("bob", H2)>>,
     <<Ed25519Instruction("alice", H2), Ed25519Instruction("bob", H1)>>}

WithdrawDestinations == {"admin", "bob"}

(***************************************************************************)
(* Accounts                                                                *)
(***************************************************************************)
NoAccount == [discriminator |-> "none"]

\* the account at a prefix PDA
account_at(prefix) ==
    IF prefix \in DOMAIN prefix_accounts THEN prefix_accounts[prefix] ELSE NoAccount

status_at(prefix) ==
    IF prefix \in DOMAIN prefix_accounts THEN prefix_accounts[prefix].status ELSE "none"

\* The record kept of a successful instruction: its name, signer and prefix
\* argument, the status the addressed account had when it started (was), and
\* the other arguments where the instruction has them
Call(op, caller, prefix) ==
    [op |-> op, caller |-> caller, prefix |-> prefix, was |-> status_at(prefix),
     amount |-> 0, key |-> NoKey, hash |-> ZeroHash, uri |-> << >>, batch |-> << >>]

NoSig == [identity |-> NoKey, digest |-> ZeroHash, batch |-> <<>>, result |-> "idle"]

\* the instants the clock is read at: 0, and for each later period the instant a
\* window opened at 0 closes and the second after it
Times == {0} \cup {k * MAX_EXPIRY_DURATION + j : k \in 1..MaxPeriods, j \in 0..1}

Init ==
    /\ fee_registry = NoAccount
    /\ verifiers = NoAccount
    /\ treasury = 0
    /\ lamports = [pk \in Pubkeys |->
                      IF pk \in Owners THEN InitLamports
                      ELSE IF pk = "admin" THEN TreasuryRent ELSE 0]
    /\ prefix_accounts = [p \in {} |-> NoAccount]
    /\ now = 0
    /\ last = Call("deploy", NoKey, << >>)
    /\ sig = NoSig

\* The clock advances between transactions
Tick ==
    /\ \E t \in Times : t > now /\ now' = t
    /\ last' = Call("tick", NoKey, << >>)
    /\ UNCHANGED <<fee_registry, verifiers, treasury, lamports, prefix_accounts, sig>>

(***************************************************************************)
(* initialize                                                              *)
(***************************************************************************)
MutInitializeAgain(payer) ==
    IF lamports[payer] < TreasuryRent THEN "InsufficientFunds"
    ELSE "Ok"

initialize_result(payer) ==
    IF fee_registry # NoAccount THEN "AccountAlreadyInUse"
    ELSE IF lamports[payer] < TreasuryRent THEN "InsufficientFunds"
    ELSE "Ok"

initialize_handler(payer, admin_pubkey, initial_fee) ==
    /\ initialize_result(payer) = "Ok"
    /\ fee_registry' = [admin |-> admin_pubkey, current_fee |-> initial_fee, pause |-> FALSE]
    /\ verifiers' = [admin |-> admin_pubkey, verifiers |-> << >>]
    /\ treasury' = treasury + TreasuryRent
    /\ lamports' = [lamports EXCEPT ![payer] = @ - TreasuryRent]
    /\ last' = [Call("initialize", payer, << >>) EXCEPT !.amount = initial_fee, !.key = admin_pubkey]
    /\ UNCHANGED <<prefix_accounts, now, sig>>

(***************************************************************************)
(* Admin instructions                                                      *)
(***************************************************************************)
update_fee_result(admin) ==
    IF fee_registry = NoAccount THEN "AccountNotInitialized"
    ELSE IF admin # fee_registry.admin THEN "UnauthorizedAdmin"
    ELSE "Ok"

update_fee_handler(admin, new_fee) ==
    /\ update_fee_result(admin) = "Ok"
    /\ fee_registry' = [fee_registry EXCEPT !.current_fee = new_fee]
    /\ last' = [Call("update_fee", admin, << >>) EXCEPT !.amount = new_fee]
    /\ UNCHANGED <<verifiers, treasury, lamports, prefix_accounts, now, sig>>

set_pause_result(admin) ==
    IF fee_registry = NoAccount THEN "AccountNotInitialized"
    ELSE IF admin # fee_registry.admin THEN "UnauthorizedAdmin"
    ELSE "Ok"

set_pause_handler(admin, pause) ==
    /\ set_pause_result(admin) = "Ok"
    /\ fee_registry' = [fee_registry EXCEPT !.pause = pause]
    /\ last' = [Call("set_pause", admin, << >>) EXCEPT !.amount = IF pause THEN 1 ELSE 0]
    /\ UNCHANGED <<verifiers, treasury, lamports, prefix_accounts, now, sig>>

contains(list, pk) == \E i \in DOMAIN list : list[i] = pk

\* add_verifier.rs; a list that outgrows the account's space (MAX_VERIFIERS
\* keys, initialize.rs 27) cannot be written back when the instruction exits
MutAddVerifierNoAdmin(admin, verifier) ==
    IF fee_registry = NoAccount THEN "AccountNotInitialized"
    ELSE IF contains(verifiers.verifiers, verifier) THEN "InvalidPrefixStatus"
    ELSE IF Len(verifiers.verifiers) + 1 > MAX_VERIFIERS THEN "AccountDidNotSerialize"
    ELSE "Ok"

add_verifier_result(admin, verifier) ==
    IF fee_registry = NoAccount THEN "AccountNotInitialized"
    ELSE IF admin # fee_registry.admin THEN "UnauthorizedAdmin"
    ELSE IF contains(verifiers.verifiers, verifier) THEN "InvalidPrefixStatus"
    ELSE IF Len(verifiers.verifiers) + 1 > MAX_VERIFIERS THEN "AccountDidNotSerialize"
    ELSE "Ok"

add_verifier_handler(admin, verifier) ==
    /\ add_verifier_result(admin, verifier) = "Ok"
    /\ verifiers' = [verifiers EXCEPT !.verifiers = Append(@, verifier)]
    /\ last' = [Call("add_verifier", admin, << >>) EXCEPT !.key = verifier]
    /\ UNCHANGED <<fee_registry, treasury, lamports, prefix_accounts, now, sig>>

\* iter().position(|v| *v == verifier): the first index holding the key, 0 if none
position(list, pk) ==
    IF contains(list, pk)
    THEN CHOOSE i \in DOMAIN list : list[i] = pk /\ \A j \in 1..(i - 1) : list[j] # pk
    ELSE 0

\* Vec::remove(pos)
MutRemoveSwap(list, pos) ==
    [i \in 1..(Len(list) - 1) |-> IF i = pos THEN list[Len(list)] ELSE list[i]]

remove_at(list, pos) ==
    [i \in 1..(Len(list) - 1) |-> IF i < pos THEN list[i] ELSE list[i + 1]]

remove_verifier_result(admin, verifier) ==
    IF fee_registry = NoAccount THEN "AccountNotInitialized"
    ELSE IF admin # fee_registry.admin THEN "UnauthorizedAdmin"
    ELSE IF position(verifiers.verifiers, verifier) = 0 THEN "UnauthorizedVerifier"
    ELSE "Ok"

MutRemoveKeepsVerifier(admin, verifier) ==
    /\ remove_verifier_result(admin, verifier) = "Ok"
    /\ verifiers' = verifiers
    /\ last' = [Call("remove_verifier", admin, << >>) EXCEPT !.key = verifier]
    /\ UNCHANGED <<fee_registry, treasury, lamports, prefix_accounts, now, sig>>

remove_verifier_handler(admin, verifier) ==
    /\ remove_verifier_result(admin, verifier) = "Ok"
    /\ verifiers' = [verifiers EXCEPT
                       !.verifiers = remove_at(@, position(@, verifier))]
    /\ last' = [Call("remove_verifier", admin, << >>) EXCEPT !.key = verifier]
    /\ UNCHANGED <<fee_registry, treasury, lamports, prefix_accounts, now, sig>>

\* withdraw_treasury.rs: to_acc is the destination account passed, to the argument
MutWithdrawWhilePaused(admin, amount, to_acc, to) ==
    IF fee_registry = NoAccount THEN "AccountNotInitialized"
    ELSE IF admin # fee_registry.admin THEN "UnauthorizedAdmin"
    ELSE IF ~(treasury >= amount) THEN "InsufficientTreasuryBalance"
    ELSE IF to_acc # to THEN "InvalidTreasuryAccount"
    ELSE "Ok"

MutWithdrawNoBalanceCheck(admin, amount, to_acc, to) ==
    IF fee_registry = NoAccount THEN "AccountNotInitialized"
    ELSE IF admin # fee_registry.admin THEN "UnauthorizedAdmin"
    ELSE IF fee_registry.pause THEN "FeeOperationsPaused"
    ELSE IF to_acc # to THEN "InvalidTreasuryAccount"
    ELSE "Ok"

withdraw_treasury_result(admin, amount, to_acc, to) ==
    IF fee_registry = NoAccount THEN "AccountNotInitialized"
    ELSE IF admin # fee_registry.admin THEN "UnauthorizedAdmin"
    ELSE IF fee_registry.pause THEN "FeeOperationsPaused"
    ELSE IF ~(treasury >= amount) THEN "InsufficientTreasuryBalance"
    ELSE IF to_acc # to THEN "InvalidTreasuryAccount"
    ELSE "Ok"

withdraw_treasury_handler(admin, amount, to_acc, to) ==
    /\ withdraw_treasury_result(admin, amount, to_acc, to) = "Ok"
    /\ treasury' = treasury - amount
    /\ lamports' = [lamports EXCEPT ![to_acc] = @ + amount]
    /\ last' = [Call("withdraw_treasury", admin, << >>) EXCEPT !.amount = amount, !.key = to]
    /\ UNCHANGED <<fee_registry, verifiers, prefix_accounts, now, sig>>

(***************************************************************************)
(* Prefix lifecycle instructions                                           *)
(***************************************************************************)
\* submit_prefix_with_fee.rs 86-101: the account a submission populates
MutNewAccountNoWindow(owner, normalized, metadata_uri, metadata_hash, authority_keys, fee, t) ==
    [owner |-> owner, prefix |-> normalized, metadata_uri |-> metadata_uri,
     metadata_hash |-> metadata_hash, ref_hash |-> ZeroHash, status |-> "Pending",
     authority_keys |-> authority_keys, fee_paid |-> fee,
     expiry_at |-> t, created_at |-> t]

new_prefix_account(owner, normalized, metadata_uri, metadata_hash, authority_keys, fee, t) ==
    [owner |-> owner, prefix |-> normalized, metadata_uri |-> metadata_uri,
     metadata_hash |-> metadata_hash, ref_hash |-> ZeroHash, status |-> "Pending",
     authority_keys |-> authority_keys, fee_paid |-> fee,
     expiry_at |-> t + MAX_EXPIRY_DURATION, created_at |-> t]

MutSubmitOverExisting(owner, prefix, metadata_uri, metadata_hash, authority_keys, batch) ==
    IF fee_registry = NoAccount THEN "AccountNotInitialized"
    ELSE IF fee_registry.pause THEN "FeeOperationsPaused"
    ELSE IF ~normalize_prefix(prefix).ok THEN "InvalidPrefixFormat"
    ELSE IF ~(prefix = normalize_prefix(prefix).value) THEN "InvalidPrefixFormat"
    ELSE IF validate_metadata(metadata_uri, metadata_hash) # "Ok"
    THEN validate_metadata(metadata_uri, metadata_hash)
    ELSE IF ~(Len(authority_keys) <= MAX_AUTH_KEYS) THEN "AuthorityKeysTooMany"
    ELSE IF verify_ed25519_signature(batch, owner, metadata_hash) # "Ok"
    THEN "InvalidEd25519Signature"
    ELSE IF ~(fee_registry.current_fee > 0) THEN "InsufficientFee"
    ELSE IF lamports[owner] < fee_registry.current_fee THEN "InsufficientFunds"
    ELSE "Ok"

MutSubmitUppercases(owner, prefix, metadata_uri, metadata_hash, authority_keys, batch) ==
    IF fee_registry = NoAccount THEN "AccountNotInitialized"
    ELSE IF account_at(prefix) # NoAccount THEN "AccountAlreadyInUse"
    ELSE IF fee_registry.pause THEN "FeeOperationsPaused"
    ELSE IF ~normalize_prefix(prefix).ok THEN "InvalidPrefixFormat"
    ELSE IF validate_metadata(metadata_uri, metadata_hash) # "Ok"
    THEN validate_metadata(metadata_uri, metadata_hash)
    ELSE IF ~(Len(authority_keys) <= MAX_AUTH_KEYS) THEN "AuthorityKeysTooMany"
    ELSE IF verify_ed25519_signature(batch, owner, metadata_hash) # "Ok"
    THEN "InvalidEd25519Signature"
    ELSE IF ~(fee_registry.current_fee > 0) THEN "InsufficientFee"
    ELSE IF lamports[owner] < fee_registry.current_fee THEN "InsufficientFunds"
    ELSE "Ok"

submit_prefix_with_fee_result(owner, prefix, metadata_uri, metadata_hash, authority_keys, batch) ==
    IF fee_registry = NoAccount THEN "AccountNotInitialized"
    ELSE IF account_at(prefix) # NoAccount THEN "AccountAlreadyInUse"
    ELSE IF fee_registry.pause THEN "FeeOperationsPaused"
    ELSE IF ~normalize_prefix(prefix).ok THEN "InvalidPrefixFormat"
    ELSE IF ~(prefix = normalize_prefix(prefix).value) THEN "InvalidPrefixFormat"
    ELSE IF validate_metadata(metadata_uri, metadata_hash) # "Ok"
    THEN validate_metadata(metadata_uri, metadata_hash)
    ELSE IF ~(Len(authority_keys) <= MAX_AUTH_KEYS) THEN "AuthorityKeysTooMany"
    ELSE IF verify_ed25519_signature(batch, owner, metadata_hash) # "Ok"
    THEN "InvalidEd25519Signature"
    ELSE IF ~(fee_registry.current_fee > 0) THEN "InsufficientFee"
    ELSE IF lamports[owner] < fee_registry.current_fee THEN "InsufficientFunds"
    ELSE "Ok"

MutSubmitNoTransfer(owner, prefix, metadata_uri, metadata_hash, authority_keys, batch) ==
    LET fee == fee_registry.current_fee
    IN  /\ submit_prefix_with_fee_result(owner, prefix, metadata_uri, metadata_hash,
                                         authority_keys, batch) = "Ok"
        /\ prefix_accounts' = [q \in DOMAIN prefix_accounts \cup {prefix} |->
               IF q = prefix
               THEN new_prefix_account(owner, normalize_prefix(prefix).value, metadata_uri,
                                       metadata_hash, authority_keys, fee, now)
               ELSE prefix_accounts[q]]
        /\ last' = [Call("submit_prefix_with_fee", owner, prefix) EXCEPT
                      !.amount = fee, !.hash = metadata_hash, !.uri = metadata_uri,
                      !.batch = batch]
        /\ UNCHANGED <<fee_registry, verifiers, treasury, lamports, now, sig>>

submit_prefix_with_fee_handler(owner, prefix, metadata_uri, metadata_hash, authority_keys, batch) ==
    LET fee == fee_registry.current_fee
    IN  /\ submit_prefix_with_fee_result(owner, prefix, metadata_uri, metadata_hash,
                                         authority_keys, batch) = "Ok"
        /\ lamports' = [lamports EXCEPT ![owner] = @ - fee]
        /\ treasury' = treasury + fee
        /\ prefix_accounts' = [q \in DOMAIN prefix_accounts \cup {prefix} |->
               IF q = prefix
               THEN new_prefix_account(owner, normalize_prefix(prefix).value, metadata_uri,
                                       metadata_hash, authority_keys, fee, now)
               ELSE prefix_accounts[q]]
        /\ last' = [Call("submit_prefix_with_fee", owner, prefix) EXCEPT
                      !.amount = fee, !.hash = metadata_hash, !.uri = metadata_uri,
                      !.batch = batch]
        /\ UNCHANGED <<fee_registry, verifiers, now, sig>>

\* approve_prefix.rs 48-51
MutNotExpiredStrict(acct) == now < acct.expiry_at

not_expired(acct) == now <= acct.expiry_at

MutApproveNoAuth(verifier, prefix) ==
    IF fee_registry = NoAccount \/ account_at(prefix) = NoAccount
    THEN "AccountNotInitialized"
    ELSE IF fee_registry.pause THEN "FeeOperationsPaused"
    ELSE IF ~(prefix_accounts[prefix].status = "Pending") THEN "InvalidPrefixStatus"
    ELSE IF ~not_expired(prefix_accounts[prefix]) THEN "PrefixExpired"
    ELSE "Ok"

MutApproveNoStatus(verifier, prefix) ==
    IF fee_registry = NoAccount \/ account_at(prefix) = NoAccount
    THEN "AccountNotInitialized"
    ELSE IF fee_registry.pause THEN "FeeOperationsPaused"
    ELSE IF ~contains(verifiers.verifiers, verifier) THEN "UnauthorizedVerifier"
    ELSE IF ~not_expired(prefix_accounts[prefix]) THEN "PrefixExpired"
    ELSE "Ok"

approve_prefix_result(verifier, prefix) ==
    IF fee_registry = NoAccount \/ account_at(prefix) = NoAccount
    THEN "AccountNotInitialized"
    ELSE IF fee_registry.pause THEN "FeeOperationsPaused"
    ELSE IF ~contains(verifiers.verifiers, verifier) THEN "UnauthorizedVerifier"
    ELSE IF ~(prefix_accounts[prefix].status = "Pending") THEN "InvalidPrefixStatus"
    ELSE IF ~not_expired(prefix_accounts[prefix]) THEN "PrefixExpired"
    ELSE "Ok"

approve_prefix_handler(verifier, prefix, ref_hash) ==
    /\ approve_prefix_result(verifier, prefix) = "Ok"
    /\ prefix_accounts' = [prefix_accounts EXCEPT ![prefix] =
           [@ EXCEPT !.status = "Active", !.ref_hash = ref_hash]]
    /\ last' = [Call("approve_prefix", verifier, prefix) EXCEPT !.hash = ref_hash]
    /\ UNCHANGED <<fee_registry, verifiers, treasury, lamports, now, sig>>

\* reject_prefix.rs; the reason string goes to the event only
MutRejectAnyStatus(verifier, prefix) ==
    IF fee_registry = NoAccount \/ account_at(prefix) = NoAccount
    THEN "AccountNotInitialized"
    ELSE IF fee_registry.pause THEN "FeeOperationsPaused"
    ELSE IF ~contains(verifiers.verifiers, verifier) THEN "UnauthorizedVerifier"
    ELSE "Ok"

reject_prefix_result(verifier, prefix) ==
    IF fee_registry = NoAccount \/ account_at(prefix) = NoAccount
    THEN "AccountNotInitialized"
    ELSE IF fee_registry.pause THEN "FeeOperationsPaused"
    ELSE IF ~contains(verifiers.verifiers, verifier) THEN "UnauthorizedVerifier"
    ELSE IF ~(prefix_accounts[prefix].status = "Pending") THEN "InvalidPrefixStatus"
    ELSE "Ok"

MutRejectWritesRefHash(verifier, prefix) ==
    /\ reject_prefix_result(verifier, prefix) = "Ok"
    /\ prefix_accounts' = [prefix_accounts EXCEPT ![prefix] =
           [@ EXCEPT !.status = "Rejected", !.ref_hash = R1]]
    /\ last' = Call("reject_prefix", verifier, prefix)
    /\ UNCHANGED <<fee_registry, verifiers, treasury, lamports, now, sig>>

reject_prefix_handler(verifier, prefix) ==
    /\ reject_prefix_result(verifier, prefix) = "Ok"
    /\ prefix_accounts' = [prefix_accounts EXCEPT ![prefix] = [@ EXCEPT !.status = "Rejected"]]
    /\ last' = Call("reject_prefix", verifier, prefix)
    /\ UNCHANGED <<fee_registry, verifiers, treasury, lamports, now, sig>>

\* refund_prefix_fee.rs 31-36: is_rejected || is_expired
MutRefundableAtExpiry(acct) ==
    \/ acct.status = "Rejected"
    \/ (acct.status = "Pending" /\ now >= acct.expiry_at)

refund_allowed(acct) ==
    LET is_rejected == acct.status = "Rejected"
        is_expired == acct.status = "Pending" /\ now > acct.expiry_at
    IN  is_rejected \/ is_expired

MutRefundAnyCaller(owner, prefix) ==
    IF fee_registry = NoAccount \/ account_at(prefix) = NoAccount
    THEN "AccountNotInitialized"
    ELSE IF fee_registry.pause THEN "FeeOperationsPaused"
    ELSE IF ~refund_allowed(prefix_accounts[prefix]) THEN "RefundNotAllowed"
    ELSE IF ~(prefix_accounts[prefix].fee_paid > 0) THEN "RefundNotAllowed"
    ELSE IF ~(treasury >= prefix_accounts[prefix].fee_paid) THEN "InsufficientTreasuryBalance"
    ELSE "Ok"

MutRefundWhilePaused(owner, prefix) ==
    IF fee_registry = NoAccount \/ account_at(prefix) = NoAccount
    THEN "AccountNotInitialized"
    ELSE IF ~refund_allowed(prefix_accounts[prefix]) THEN "RefundNotAllowed"
    ELSE IF owner # prefix_accounts[prefix].owner THEN "UnauthorizedOwnerAction"
    ELSE IF ~(prefix_accounts[prefix].fee_paid > 0) THEN "RefundNotAllowed"
    ELSE IF ~(treasury >= prefix_accounts[prefix].fee_paid) THEN "InsufficientTreasuryBalance"
    ELSE "Ok"

refund_prefix_fee_result(owner, prefix) ==
    IF fee_registry = NoAccount \/ account_at(prefix) = NoAccount
    THEN "AccountNotInitialized"
    ELSE IF fee_registry.pause THEN "FeeOperationsPaused"
    ELSE IF ~refund_allowed(prefix_accounts[prefix]) THEN "RefundNotAllowed"
    ELSE IF owner # prefix_accounts[prefix].owner THEN "UnauthorizedOwnerAction"
    ELSE IF ~(prefix_accounts[prefix].fee_paid > 0) THEN "RefundNotAllowed"
    ELSE IF ~(treasury >= prefix_accounts[prefix].fee_paid) THEN "InsufficientTreasuryBalance"
    ELSE "Ok"

\* the transfer, then the close = owner constraint removes the account
refund_prefix_fee_handler(owner, prefix) ==
    LET amount == prefix_accounts[prefix].fee_paid
    IN  /\ refund_prefix_fee_result(owner, prefix) = "Ok"
        /\ treasury' = treasury - amount
        /\ lamports' = [lamports EXCEPT ![owner] = @ + amount]
        /\ prefix_accounts' = [q \in DOMAIN prefix_accounts \ {prefix} |-> prefix_accounts[q]]
        /\ last' = [Call("refund_prefix_fee", owner, prefix) EXCEPT !.amount = amount]
        /\ UNCHANGED <<fee_registry, verifiers, now, sig>>

update_prefix_metadata_result(owner, prefix, new_uri, new_hash, batch) ==
    IF account_at(prefix) = NoAccount THEN "AccountNotInitialized"
    ELSE IF owner # prefix_accounts[prefix].owner THEN "UnauthorizedOwnerAction"
    ELSE IF ~(prefix_accounts[prefix].status # "Rejected") THEN "InvalidPrefixStatus"
    ELSE IF validate_metadata(new_uri, new_hash) # "Ok" THEN validate_metadata(new_uri, new_hash)
    ELSE IF verify_ed25519_signature(batch, owner, new_hash) # "Ok"
    THEN "InvalidEd25519Signature"
    ELSE "Ok"

\* update_prefix_metadata.rs 47-57: the account after the update
MutMetadataRenewsWindow(acct, new_uri, new_hash) ==
    LET replaced == [acct EXCEPT !.metadata_uri = new_uri, !.metadata_hash = new_hash]
    IN  IF acct.status = "Active"
        THEN [replaced EXCEPT !.status = "Pending", !.ref_hash = ZeroHash,
                              !.expiry_at = now + MAX_EXPIRY_DURATION]
        ELSE replaced

MutMetadataKeepsActive(acct, new_uri, new_hash) ==
    [acct EXCEPT !.metadata_uri = new_uri, !.metadata_hash = new_hash]

with_new_metadata(acct, new_uri, new_hash) ==
    LET replaced == [acct EXCEPT !.metadata_uri = new_uri, !.metadata_hash = new_hash]
    IN  IF acct.status = "Active"
        THEN [replaced EXCEPT !.status = "Pending", !.ref_hash = ZeroHash]
        ELSE replaced

update_prefix_metadata_handler(owner, prefix, new_uri, new_hash, batch) ==
    /\ update_prefix_metadata_result(owner, prefix, new_uri, new_hash, batch) = "Ok"
    /\ prefix_accounts' = [prefix_accounts EXCEPT ![prefix] =
           with_new_metadata(@, new_uri, new_hash)]
    /\ last' = [Call("update_prefix_metadata", owner, prefix) EXCEPT
                  !.hash = new_hash, !.uri = new_uri, !.batch = batch]
    /\ UNCHANGED <<fee_registry, verifiers, treasury, lamports, now, sig>>

MutAuthorityNoLimit(owner, prefix, authority_keys) ==
    IF account_at(prefix) = NoAccount THEN "AccountNotInitialized"
    ELSE IF owner # prefix_accounts[prefix].owner THEN "UnauthorizedOwnerAction"
    ELSE IF ~(prefix_accounts[prefix].status # "Rejected") THEN "InvalidPrefixStatus"
    ELSE "Ok"

update_prefix_authority_result(owner, prefix, authority_keys) ==
    IF account_at(prefix) = NoAccount THEN "AccountNotInitialized"
    ELSE IF ~(Len(authority_keys) <= MAX_AUTH_KEYS) THEN "AuthorityKeysTooMany"
    ELSE IF owner # prefix_accounts[prefix].owner THEN "UnauthorizedOwnerAction"
    ELSE IF ~(prefix_accounts[prefix].status # "Rejected") THEN "InvalidPrefixStatus"
    ELSE "Ok"

update_prefix_authority_handler(owner, prefix, authority_keys) ==
    /\ update_prefix_authority_result(owner, prefix, authority_keys) = "Ok"
    /\ prefix_accounts' = [prefix_accounts EXCEPT ![prefix] =
           [@ EXCEPT !.authority_keys = authority_keys]]
    /\ last' = [Call("update_prefix_authority", owner, prefix) EXCEPT !.amount = Len(authority_keys)]
    /\ UNCHANGED <<fee_registry, verifiers, treasury, lamports, now, sig>>

MutDeactivateAnyStatus(admin, prefix) ==
    IF fee_registry = NoAccount \/ account_at(prefix) = NoAccount
    THEN "AccountNotInitialized"
    ELSE IF admin # fee_registry.admin THEN "UnauthorizedAdmin"
    ELSE "Ok"

deactivate_prefix_result(admin, prefix) ==
    IF fee_registry = NoAccount \/ account_at(prefix) = NoAccount
    THEN "AccountNotInitialized"
    ELSE IF admin # fee_registry.admin THEN "UnauthorizedAdmin"
    ELSE IF ~(prefix_accounts[prefix].status = "Active") THEN "InvalidPrefixStatus"
    ELSE "Ok"

deactivate_prefix_handler(admin, prefix) ==
    /\ deactivate_prefix_result(admin, prefix) = "Ok"
    /\ prefix_accounts' = [prefix_accounts EXCEPT ![prefix] = [@ EXCEPT !.status = "Inactive"]]
    /\ last' = Call("deactivate_prefix", admin, prefix)
    /\ UNCHANGED <<fee_registry, verifiers, treasury, lamports, now, sig>>

reactivate_prefix_result(admin, prefix) ==
    IF fee_registry = NoAccount \/ account_at(prefix) = NoAccount
    THEN "AccountNotInitialized"
    ELSE IF admin # fee_registry.admin THEN "UnauthorizedAdmin"
    ELSE IF ~(prefix_accounts[prefix].status = "Inactive") THEN "InvalidPrefixStatus"
    ELSE "Ok"

MutReactivateClearsRefHash(admin, prefix) ==
    /\ reactivate_prefix_result(admin, prefix) = "Ok"
    /\ prefix_accounts' = [prefix_accounts EXCEPT ![prefix] =
           [@ EXCEPT !.status = "Active", !.ref_hash = ZeroHash]]
    /\ last' = Call("reactivate_prefix", admin, prefix)
    /\ UNCHANGED <<fee_registry, verifiers, treasury, lamports, now, sig>>

reactivate_prefix_handler(admin, prefix) ==
    /\ reactivate_prefix_result(admin, prefix) = "Ok"
    /\ prefix_accounts' = [prefix_accounts EXCEPT ![prefix] = [@ EXCEPT !.status = "Active"]]
    /\ last' = Call("reactivate_prefix", admin, prefix)
    /\ UNCHANGED <<fee_registry, verifiers, treasury, lamports, now, sig>>

\* recover_prefix_owner_with_fee.rs: new_owner_signer is the account that signs
\* and pays, new_owner the instruction argument
MutRecoverWhilePaused(new_owner_signer, admin, prefix, new_owner) ==
    IF fee_registry = NoAccount \/ account_at(prefix) = NoAccount
    THEN "AccountNotInitialized"
    ELSE IF admin # fee_registry.admin THEN "UnauthorizedAdmin"
    ELSE IF new_owner_signer # new_owner THEN "UnauthorizedOwnerAction"
    ELSE IF ~(fee_registry.current_fee > 0) THEN "InsufficientFee"
    ELSE IF ~(lamports[new_owner_signer] >= fee_registry.current_fee) THEN "InsufficientFee"
    ELSE "Ok"

MutRecoverNoSignerCheck(new_owner_signer, admin, prefix, new_owner) ==
    IF fee_registry = NoAccount \/ account_at(prefix) = NoAccount
    THEN "AccountNotInitialized"
    ELSE IF admin # fee_registry.admin THEN "UnauthorizedAdmin"
    ELSE IF fee_registry.pause THEN "FeeOperationsPaused"
    ELSE IF ~(fee_registry.current_fee > 0) THEN "InsufficientFee"
    ELSE IF ~(lamports[new_owner_signer] >= fee_registry.current_fee) THEN "InsufficientFee"
    ELSE "Ok"

recover_prefix_owner_with_fee_result(new_owner_signer, admin, prefix, new_owner) ==
    IF fee_registry = NoAccount \/ account_at(prefix) = NoAccount
    THEN "AccountNotInitialized"
    ELSE IF admin # fee_registry.admin THEN "UnauthorizedAdmin"
    ELSE IF fee_registry.pause THEN "FeeOperationsPaused"
    ELSE IF new_owner_signer # new_owner THEN "UnauthorizedOwnerAction"
    ELSE IF ~(fee_registry.current_fee > 0) THEN "InsufficientFee"
    ELSE IF ~(lamports[new_owner_signer] >= fee_registry.current_fee) THEN "InsufficientFee"
    ELSE "Ok"

MutRecoverKeepsOwner(new_owner_signer, admin, prefix, new_owner) ==
    LET fee == fee_registry.current_fee
    IN  /\ recover_prefix_owner_with_fee_result(new_owner_signer, admin, prefix, new_owner) = "Ok"
        /\ lamports' = [lamports EXCEPT ![new_owner_signer] = @ - fee]
        /\ treasury' = treasury + fee
        /\ last' = [Call("recover_prefix_owner_with_fee", admin, prefix) EXCEPT !.amount = fee, !.key = new_owner]
        /\ UNCHANGED <<fee_registry, verifiers, prefix_accounts, now, sig>>

recover_prefix_owner_with_fee_handler(new_owner_signer, admin, prefix, new_owner) ==
    LET fee == fee_registry.current_fee
    IN  /\ recover_prefix_owner_with_fee_result(new_owner_signer, admin, prefix, new_owner) = "Ok"
        /\ lamports' = [lamports EXCEPT ![new_owner_signer] = @ - fee]
        /\ treasury' = treasury + fee
        /\ prefix_accounts' = [prefix_accounts EXCEPT ![prefix] = [@ EXCEPT !.owner = new_owner]]
        /\ last' = [Call("recover_prefix_owner_with_fee", admin, prefix) EXCEPT !.amount = fee, !.key = new_owner]
        /\ UNCHANGED <<fee_registry, verifiers, now, sig>>

(***************************************************************************)
(* Specification                                                           *)
(***************************************************************************)
Next ==
    \/ Tick
    \/ \E admin_pubkey \in {"admin"}, initial_fee \in 0..MaxFee :
           initialize_handler("admin", admin_pubkey, initial_fee)
    \/ \E admin \in Pubkeys, new_fee \in 0..MaxFee : update_fee_handler(admin, new_fee)
    \/ \E admin \in Pubkeys, pause \in BOOLEAN : set_pause_handler(admin, pause)
    \/ \E admin \in Pubkeys, v \in VerifierCandidates : add_verifier_handler(admin, v)
    \/ \E admin \in Pubkeys, v \in VerifierCandidates : remove_verifier_handler(admin, v)
    \/ \E admin \in Pubkeys, amount \in 0..(treasury + 1), to \in WithdrawDestinations :
           withdraw_treasury_handler(admin, amount, "admin", to)
    \/ \E owner \in Owners, prefix \in Prefixes, m \in Metadata,
          keys \in AuthorityKeys, batch \in Batches :
           submit_prefix_with_fee_handler(owner, prefix, m[1], m[2], keys, batch)
    \/ \E verifier \in Pubkeys, prefix \in Prefixes, ref_hash \in RefHashes :
           approve_prefix_handler(verifier, prefix, ref_hash)
    \/ \E verifier \in Pubkeys, prefix \in Prefixes : reject_prefix_handler(verifier, prefix)
    \/ \E owner \in Pubkeys, prefix \in Prefixes : refund_prefix_fee_handler(owner, prefix)
    \/ \E owner \in Owners, prefix \in Prefixes, m \in Metadata, batch \in Batches :
           update_prefix_metadata_handler(owner, prefix, m[1], m[2], batch)
    \/ \E owner \in Owners, prefix \in Prefixes, keys \in AuthorityKeys :
           update_prefix_authority_handler(owner, prefix, keys)
    \/ \E admin \in Pubkeys, prefix \in Prefixes : deactivate_prefix_handler(admin, prefix)
    \/ \E admin \in Pubkeys, prefix \in Prefixes : reactivate_prefix_handler(admin, prefix)
    \/ \E signer \in Owners, admin \in Pubkeys, prefix \in Prefixes, new_owner \in Owners :
           recover_prefix_owner_with_fee_handler(signer, admin, prefix, new_owner)

Spec == Init /\ [][Next]_vars

(***************************************************************************)
(* The attestation check on its own: one call of verify_ed25519_signature  *)
(* on inputs drawn at the start, in a registry that initialize("admin", 1) *)
(* has set up, where every transaction carries the batch sig.batch         *)
(***************************************************************************)
SigInstructions ==
    {Ed25519Instruction("alice", H1), Ed25519Instruction("bob", H2),
     ForgedInstruction, EmbeddedInstruction, OtherInstruction}

SigBatches == UNION {[1..n -> SigInstructions] : n \in 0..MaxBatchLen}

InitSig ==
    /\ fee_registry = [admin |-> "admin", current_fee |-> 1, pause |-> FALSE]
    /\ verifiers = [admin |-> "admin", verifiers |-> << >>]
    /\ treasury = TreasuryRent
    /\ lamports = [pk \in Pubkeys |-> IF pk \in Owners THEN InitLamports ELSE 0]
    /\ prefix_accounts = [p \in {} |-> NoAccount]
    /\ now = 0
    /\ last = [Call("initialize", "admin", << >>) EXCEPT !.amount = 1, !.key = "admin"]
    /\ sig \in [identity : Pubkeys, digest : MetadataHashes, batch : SigBatches,
                result : {"pending"}]

VerifySig ==
    /\ sig.result = "pending"
    /\ sig' = [sig EXCEPT !.result = verify_ed25519_signature(sig.batch, sig.identity, sig.digest)]
    /\ UNCHANGED <<fee_registry, verifiers, treasury, lamports, prefix_accounts, now, last>>

NextSig ==
    \/ VerifySig
    \/ \E owner \in Owners, m \in Metadata :
           submit_prefix_with_fee_handler(owner, PrefixABC, m[1], m[2], << >>, sig.batch)
    \/ \E owner \in Owners, m \in Metadata :
           update_prefix_metadata_handler(owner, PrefixABC, m[1], m[2], sig.batch)

SpecSig == InitSig /\ [][NextSig]_vars

(***************************************************************************)
(* The bootstrap: the same instructions on one prefix with one metadata,   *)
(* where initialize is called by either of two payers for any admin key    *)
(***************************************************************************)
Payers == {"admin", "alice"}
BootMetadata == <<UriHttps, H1>>

NextBoot ==
    \/ Tick
    \/ \E payer \in Payers, admin_pubkey \in Pubkeys, initial_fee \in 0..MaxFee :
           initialize_handler(payer, admin_pubkey, initial_fee)
    \/ \E admin \in Pubkeys, new_fee \in 0..MaxFee : update_fee_handler(admin, new_fee)
    \/ \E admin \in Pubkeys, pause \in BOOLEAN : set_pause_handler(admin, pause)
    \/ \E admin \in Pubkeys, v \in VerifierCandidates : add_verifier_handler(admin, v)
    \/ \E admin \in Pubkeys, v \in VerifierCandidates : remove_verifier_handler(admin, v)
    \/ \E admin \in Pubkeys, amount \in 0..(treasury + 1) :
           withdraw_treasury_handler(admin, amount, "admin", "admin")
    \/ \E owner \in Owners :
           submit_prefix_with_fee_handler(owner, PrefixABC, BootMetadata[1], BootMetadata[2],
               << >>, <<Ed25519Instruction(owner, BootMetadata[2])>>)
    \/ \E verifier \in Pubkeys, ref_hash \in RefHashes :
           approve_prefix_handler(verifier, PrefixABC, ref_hash)
    \/ \E verifier \in Pubkeys : reject_prefix_handler(verifier, PrefixABC)
    \/ \E owner \in Pubkeys : refund_prefix_fee_handler(owner, PrefixABC)
    \/ \E owner \in Owners :
           update_prefix_metadata_handler(owner, PrefixABC, BootMetadata[1], BootMetadata[2],
               <<Ed25519Instruction(owner, BootMetadata[2])>>)
    \/ \E owner \in Owners : update_prefix_authority_handler(owner, PrefixABC, << >>)
    \/ \E admin \in Pubkeys : deactivate_prefix_handler(admin, PrefixABC)
    \/ \E admin \in Pubkeys : reactivate_prefix_handler(admin, PrefixABC)
    \/ \E signer \in Owners, admin \in Pubkeys :
           recover_prefix_owner_with_fee_handler(signer, admin, PrefixABC, signer)

SpecBoot == Init /\ [][NextBoot]_vars

(***************************************************************************)
(* The verifier directory on its own: add_verifier and remove_verifier for *)
(* every key, in a registry that initialize("admin", 1) has set up and     *)
(* whose directory is empty or, after MAX_VERIFIERS - DirSlack earlier     *)
(* add_verifier calls with distinct keys, that much short of its capacity  *)
(***************************************************************************)
\* the key added by the i-th of the earlier calls
FillKey(i) == ToString(i)
NearFull == [i \in 1..(MAX_VERIFIERS - DirSlack) |-> FillKey(i)]
DirCandidates == Pubkeys \cup {FillKey(1), FillKey(2)}

InitDir ==
    /\ fee_registry = [admin |-> "admin", current_fee |-> 1, pause |-> FALSE]
    /\ verifiers \in {[admin |-> "admin", verifiers |-> l] : l \in {<< >>, NearFull}}
    /\ treasury = TreasuryRent
    /\ lamports = [pk \in Pubkeys |-> IF pk \in Owners THEN InitLamports ELSE 0]
    /\ prefix_accounts = [p \in {} |-> NoAccount]
    /\ now = 0
    /\ last = [Call("initialize", "admin", << >>) EXCEPT !.amount = 1, !.key = "admin"]
    /\ sig = NoSig

NextDir ==
    \/ \E admin \in Pubkeys, v \in DirCandidates : add_verifier_handler(admin, v)
    \/ \E admin \in Pubkeys, v \in DirCandidates : remove_verifier_handler(admin, v)

SpecDir == InitDir /\ [][NextDir]_vars

(***************************************************************************)
(* Properties                                                              *)
(***************************************************************************)
Live == DOMAIN prefix_accounts
Directory == Range(verifiers.verifiers)

\* needle occurs in data as a contiguous run of bytes
IsSubstring(needle, data) ==
    \E k \in 0..(Len(data) - Len(needle)) : SubSeq(data, k + 1, k + Len(needle)) = needle

\* the batch holds an instruction for the Ed25519 program whose data contains
\* the identity's 32 bytes and the digest's 32 bytes
HasAttestation(batch, identity, digest) ==
    \E i \in DOMAIN batch :
        /\ batch[i].program_id = ED25519_PROGRAM_ID
        /\ IsSubstring(as_ref(identity), batch[i].data)
        /\ IsSubstring(digest, batch[i].data)

RefundDue(acct) ==
    \/ acct.status = "Rejected"
    \/ (acct.status = "Pending" /\ now > acct.expiry_at)

\* C1: refund_prefix_fee by the record's owner with the registry unpaused succeeds
\* exactly when the record is Rejected, or Pending with now > expiry_at (and
\* fee_paid > 0 and the treasury holds fee_paid); a successful refund moves exactly
\* fee_paid from the treasury to the owner and removes the record; on an Active,
\* an Inactive or a not yet expired Pending record it fails with RefundNotAllowed.
RefundRoundTripC1 ==
    /\ [](\A p \in Live :
            LET acct == prefix_accounts[p]
                res == refund_prefix_fee_result(acct.owner, p)
            IN  ~fee_registry.pause =>
                  /\ (res = "Ok") <=>
                        (RefundDue(acct) /\ acct.fee_paid > 0 /\ treasury >= acct.fee_paid)
                  /\ (\/ acct.status \in {"Active", "Inactive"}
                      \/ (acct.status = "Pending" /\ now <= acct.expiry_at))
                        => res = "RefundNotAllowed")
    /\ [][last'.op = "refund_prefix_fee" =>
            LET p == last'.prefix
            IN  /\ p \in Live
                /\ last'.caller = prefix_accounts[p].owner
                /\ ~fee_registry.pause
                /\ RefundDue(prefix_accounts[p])
                /\ treasury' = treasury - prefix_accounts[p].fee_paid
                /\ lamports' = [lamports EXCEPT
                                  ![prefix_accounts[p].owner] = @ + prefix_accounts[p].fee_paid]
                /\ DOMAIN prefix_accounts' = Live \ {p}
                /\ \A q \in Live \ {p} : prefix_accounts'[q] = prefix_accounts[q]]_vars

\* C1 witness: an expired Pending record has just been refunded
RefundedExpiredC1 ==
    /\ last.op = "refund_prefix_fee"
    /\ last.was = "Pending"
    /\ last.amount > 0
    /\ last.prefix \notin Live

\* C2: a successful submit_prefix_with_fee at time t with current fee f leaves
\* exactly one record for the prefix: Pending, owned by the caller, ref_hash
\* all-zero, fee_paid = f, created_at = t, expiry_at = t + 1,209,600; the treasury
\* has gained exactly f and the owner has paid exactly f.
SubmitCreatesPendingC2 ==
    [][last'.op = "submit_prefix_with_fee" =>
          LET p == last'.prefix
              owner == last'.caller
              f == fee_registry.current_fee
          IN  /\ p \notin Live
              /\ DOMAIN prefix_accounts' = Live \cup {p}
              /\ Cardinality({q \in DOMAIN prefix_accounts' :
                                 prefix_accounts'[q].prefix = p}) = 1
              /\ prefix_accounts'[p].status = "Pending"
              /\ prefix_accounts'[p].owner = owner
              /\ prefix_accounts'[p].ref_hash = ZeroHash
              /\ prefix_accounts'[p].fee_paid = f
              /\ prefix_accounts'[p].created_at = now
              /\ prefix_accounts'[p].expiry_at = now + 1209600
              /\ treasury' = treasury + f
              /\ lamports' = [lamports EXCEPT ![owner] = @ - f]]_vars

\* C2 witness: a record submitted at a time other than 0
SubmittedLaterC2 ==
    /\ last.op = "submit_prefix_with_fee"
    /\ now > 0
    /\ last.prefix \in Live
    /\ prefix_accounts[last.prefix].created_at = now
    /\ prefix_accounts[last.prefix].fee_paid = last.amount

\* C3: with the registry unpaused and the caller in the directory, approve_prefix
\* and reject_prefix succeed only on a Pending record and fail with
\* InvalidPrefixStatus on a record in any other status; right after a successful
\* approve_prefix a second one fails with InvalidPrefixStatus.
OnlyFromPendingC3 ==
    /\ \A p \in Live, v \in Pubkeys :
          (/\ ~fee_registry.pause
           /\ v \in Directory
           /\ prefix_accounts[p].status # "Pending")
            => /\ approve_prefix_result(v, p) = "InvalidPrefixStatus"
               /\ reject_prefix_result(v, p) = "InvalidPrefixStatus"
    /\ last.op = "reject_prefix" => last.was = "Pending"
    /\ last.op = "approve_prefix" =>
          /\ last.was = "Pending"
          /\ prefix_accounts[last.prefix].status = "Active"
          /\ \A v \in Directory :
                ~fee_registry.pause => approve_prefix_result(v, last.prefix) = "InvalidPrefixStatus"

\* C3 witness: a record has just been approved and its verifier tries again
ApprovedTwiceC3 ==
    /\ last.op = "approve_prefix"
    /\ last.caller \in Directory
    /\ approve_prefix_result(last.caller, last.prefix) = "InvalidPrefixStatus"

\* C4: with the registry unpaused, approve_prefix and reject_prefix signed by a
\* principal outside the verifier directory fail with UnauthorizedVerifier for
\* every record status, and no step takes a record from Pending to Active or to
\* Rejected unless its caller is in the directory at that step.
DirectoryGateC4 ==
    /\ [](\A p \in Live, c \in Pubkeys :
            (~fee_registry.pause /\ c \notin Directory)
              => /\ approve_prefix_result(c, p) = "UnauthorizedVerifier"
                 /\ reject_prefix_result(c, p) = "UnauthorizedVerifier")
    /\ [][\A p \in Live :
            (/\ prefix_accounts[p].status = "Pending"
             /\ p \in DOMAIN prefix_accounts'
             /\ prefix_accounts'[p].status \in {"Active", "Rejected"})
              => last'.caller \in Directory]_vars

\* C4 witness: an outsider is refused on a record that is not Pending while the
\* directory is not empty
OutsiderRefusedC4 ==
    \E p \in Live :
        /\ prefix_accounts[p].status = "Active"
        /\ ~fee_registry.pause
        /\ Directory # {}
        /\ "bob" \notin Directory
        /\ approve_prefix_result("bob", p) = "UnauthorizedVerifier"

\* C5: for a Pending record, approve_prefix by a directory verifier fails with
\* PrefixExpired iff now > expiry_at and succeeds when now <= expiry_at, while the
\* owner's refund is allowed iff now > expiry_at; so at any clock value exactly
\* one of the two is possible, reject_prefix does not look at the clock, and a
\* step in which only time passes changes no record.
LazyExpiryC5 ==
    /\ [](\A p \in Live :
            LET acct == prefix_accounts[p]
                refundable == refund_prefix_fee_result(acct.owner, p) # "RefundNotAllowed"
            IN  (acct.status = "Pending" /\ ~fee_registry.pause) =>
                  /\ refundable <=> (now > acct.expiry_at)
                  /\ \A v \in Directory :
                        /\ (approve_prefix_result(v, p) = "PrefixExpired") <=> (now > acct.expiry_at)
                        /\ (now <= acct.expiry_at) => approve_prefix_result(v, p) = "Ok"
                        /\ (approve_prefix_result(v, p) = "Ok") <=> ~refundable
                        /\ reject_prefix_result(v, p) = "Ok")
    /\ [][now' # now => prefix_accounts' = prefix_accounts]_vars

\* C5 witness: a Pending record at the last instant of its window
AtExpiryC5 ==
    \E p \in Live :
        /\ prefix_accounts[p].status = "Pending"
        /\ now = prefix_accounts[p].expiry_at
        /\ ~fee_registry.pause
        /\ \E v \in Directory : approve_prefix_result(v, p) = "Ok"

RECURSIVE SumFeesPaid(_)
SumFeesPaid(S) ==
    IF S = {} THEN 0
    ELSE LET p == CHOOSE q \in S : TRUE
         IN  prefix_accounts[p].fee_paid + SumFeesPaid(S \ {p})

\* C6: in every reachable state the treasury balance is at least the sum of
\* fee_paid over the live records that are owed a refund (Rejected, or Pending
\* with now > expiry_at), so a refund that passes its status and ownership guards
\* never fails with InsufficientTreasuryBalance.
TreasuryCoversOwedC6 ==
    /\ treasury >= SumFeesPaid({p \in Live : RefundDue(prefix_accounts[p])})
    /\ \A p \in Live :
          (~fee_registry.pause /\ RefundDue(prefix_accounts[p]))
            => refund_prefix_fee_result(prefix_accounts[p].owner, p) # "InsufficientTreasuryBalance"

\* C7: the treasury balance goes down only in a successful refund_prefix_fee,
\* which removes the refunded record and debits exactly its fee_paid, or in a
\* successful withdraw_treasury, whose caller is the registry admin and which
\* runs with paused = false.
TreasuryDebitsC7 ==
    [][treasury' < treasury =>
          \/ /\ last'.op = "refund_prefix_fee"
             /\ last'.prefix \in Live
             /\ last'.prefix \notin DOMAIN prefix_accounts'
             /\ treasury - treasury' = prefix_accounts[last'.prefix].fee_paid
          \/ /\ last'.op = "withdraw_treasury"
             /\ last'.caller = fee_registry.admin
             /\ fee_registry.pause = FALSE
             /\ treasury - treasury' = last'.amount]_vars

\* C7 witness: the admin has just withdrawn a positive amount
WithdrawnC7 ==
    /\ last.op = "withdraw_treasury"
    /\ last.amount > 0
    /\ last.caller = fee_registry.admin

\* C8: update_prefix_metadata by the owner with a valid URI and hash and a
\* matching attestation replaces metadata_uri and metadata_hash; an Active
\* record becomes Pending with an all-zero ref_hash, a Pending or Inactive record
\* keeps its status and ref_hash, and on a Rejected record the call fails with
\* InvalidPrefixStatus.
MetadataUpdateC8 ==
    /\ [](\A p \in Live, m \in {<<UriHttps, H1>>, <<UriIpfs, H2>>} :
            LET acct == prefix_accounts[p]
                res == update_prefix_metadata_result(acct.owner, p, m[1], m[2],
                           <<Ed25519Instruction(acct.owner, m[2])>>)
            IN  IF acct.status = "Rejected"
                THEN res = "InvalidPrefixStatus"
                ELSE res = "Ok")
    /\ [][last'.op = "update_prefix_metadata" =>
            LET p == last'.prefix
                old == prefix_accounts[p]
                new == prefix_accounts'[p]
            IN  /\ p \in Live /\ p \in DOMAIN prefix_accounts'
                /\ old.status # "Rejected"
                /\ new.metadata_uri = last'.uri
                /\ new.metadata_hash = last'.hash
                /\ (old.status = "Active") =>
                      (new.status = "Pending" /\ new.ref_hash = ZeroHash)
                /\ (old.status \in {"Pending", "Inactive"}) =>
                      (new.status = old.status /\ new.ref_hash = old.ref_hash)
                /\ new = [old EXCEPT !.metadata_uri = new.metadata_uri,
                                     !.metadata_hash = new.metadata_hash,
                                     !.status = new.status,
                                     !.ref_hash = new.ref_hash]]_vars

\* C8 witness: an Active record went back to Pending through a metadata update
ResetByUpdateC8 ==
    /\ last.op = "update_prefix_metadata"
    /\ last.was = "Active"
    /\ prefix_accounts[last.prefix].status = "Pending"
    /\ prefix_accounts[last.prefix].metadata_hash = last.hash

\* C9: verify_ed25519_signature(identity, digest, batch) succeeds iff the batch
\* holds an instruction of the Ed25519 program whose data contains the identity
\* and the digest as contiguous substrings, and fails with
\* InvalidEd25519Signature otherwise; submit_prefix_with_fee and
\* update_prefix_metadata never succeed in a batch without one for (owner,
\* metadata hash).
AttestationRequiredC9 ==
    /\ sig.result \in {"pending", "Ok", "InvalidEd25519Signature"}
    /\ sig.result # "pending" =>
          ((sig.result = "Ok") <=> HasAttestation(sig.batch, sig.identity, sig.digest))
    /\ last.op \in {"submit_prefix_with_fee", "update_prefix_metadata"} =>
          HasAttestation(last.batch, last.caller, last.hash)
    /\ \A owner \in Owners, m \in Metadata :
          ~HasAttestation(sig.batch, owner, m[2]) =>
             /\ submit_prefix_with_fee_result(owner, PrefixABC, m[1], m[2], << >>, sig.batch) # "Ok"
             /\ update_prefix_metadata_result(owner, PrefixABC, m[1], m[2], sig.batch) # "Ok"

\* C9 witness: the check accepted the second instruction of a batch, and a
\* metadata update went through on that batch
AcceptedSecondC9 ==
    /\ sig.result = "Ok"
    /\ scan_instructions(sig.batch, 1, sig.identity, sig.digest) = 2
    /\ last.op = "update_prefix_metadata"

\* C10: whenever verify_ed25519_signature accepts for (identity, digest), the
\* instruction it accepted is one whose signer is that identity and whose signed
\* message is exactly that digest.
IntentBindingC10 ==
    sig.result = "Ok" =>
        LET ix == sig.batch[scan_instructions(sig.batch, 1, sig.identity, sig.digest)]
        IN  /\ Ed25519Signer(ix.data) = as_ref(sig.identity)
            /\ Ed25519Message(ix.data) = sig.digest

Paused == fee_registry # NoAccount /\ fee_registry.pause

FeeOperations ==
    {"submit_prefix_with_fee", "approve_prefix", "reject_prefix", "refund_prefix_fee",
     "withdraw_treasury", "recover_prefix_owner_with_fee"}

\* C11: while paused, submit_prefix_with_fee, approve_prefix, reject_prefix,
\* refund_prefix_fee, withdraw_treasury and recover_prefix_owner_with_fee by an
\* otherwise authorized caller fail with FeeOperationsPaused and no step of a
\* paused registry is one of them, whereas update_fee and set_pause by the admin
\* still succeed.
PauseBlocksFeeOpsC11 ==
    /\ [](Paused =>
            /\ \A owner \in Owners, m \in {<<UriHttps, H1>>, <<UriIpfs, H2>>} :
                  PrefixABC \notin Live =>
                     submit_prefix_with_fee_result(owner, PrefixABC, m[1], m[2], << >>,
                         <<Ed25519Instruction(owner, m[2])>>) = "FeeOperationsPaused"
            /\ \A p \in Live :
                  /\ \A v \in Directory :
                        /\ approve_prefix_result(v, p) = "FeeOperationsPaused"
                        /\ reject_prefix_result(v, p) = "FeeOperationsPaused"
                  /\ refund_prefix_fee_result(prefix_accounts[p].owner, p) = "FeeOperationsPaused"
                  /\ \A o \in Owners :
                        recover_prefix_owner_with_fee_result(o, fee_registry.admin, p, o)
                           = "FeeOperationsPaused"
            /\ \A amount \in 0..treasury, to \in WithdrawDestinations :
                  withdraw_treasury_result(fee_registry.admin, amount, to, to)
                     = "FeeOperationsPaused"
            /\ update_fee_result(fee_registry.admin) = "Ok"
            /\ set_pause_result(fee_registry.admin) = "Ok")
    /\ [][Paused => last'.op \notin FeeOperations]_vars

\* C11 witness: the registry is paused while a Rejected record is waiting for
\* its refund and the directory has a verifier
PausedWithRefundDueC11 ==
    /\ Paused
    /\ Directory # {}
    /\ treasury > 0
    /\ \E p \in Live :
          /\ prefix_accounts[p].status = "Rejected"
          /\ refund_prefix_fee_result(prefix_accounts[p].owner, p) = "FeeOperationsPaused"

\* the result, in the state a step starts in, of the call c that the step records
CallResult(c) ==
    CASE c.op = "tick" -> "Ok"
      [] c.op = "initialize" -> initialize_result(c.caller)
      [] c.op = "update_fee" -> update_fee_result(c.caller)
      [] c.op = "set_pause" -> set_pause_result(c.caller)
      [] c.op = "add_verifier" -> add_verifier_result(c.caller, c.key)
      [] c.op = "remove_verifier" -> remove_verifier_result(c.caller, c.key)
      [] c.op = "withdraw_treasury" ->
            withdraw_treasury_result(c.caller, c.amount, c.key, c.key)
      [] c.op = "submit_prefix_with_fee" ->
            IF \E keys \in AuthorityKeyInputs :
                  submit_prefix_with_fee_result(c.caller, c.prefix, c.uri, c.hash, keys, c.batch) = "Ok"
            THEN "Ok" ELSE "Failed"
      [] c.op = "approve_prefix" -> approve_prefix_result(c.caller, c.prefix)
      [] c.op = "reject_prefix" -> reject_prefix_result(c.caller, c.prefix)
      [] c.op = "refund_prefix_fee" -> refund_prefix_fee_result(c.caller, c.prefix)
      [] c.op = "update_prefix_metadata" ->
            update_prefix_metadata_result(c.caller, c.prefix, c.uri, c.hash, c.batch)
      [] c.op = "update_prefix_authority" ->
            IF \E keys \in AuthorityKeyInputs :
                  update_prefix_authority_result(c.caller, c.prefix, keys) = "Ok"
            THEN "Ok" ELSE "Failed"
      [] c.op = "deactivate_prefix" -> deactivate_prefix_result(c.caller, c.prefix)
      [] c.op = "reactivate_prefix" -> reactivate_prefix_result(c.caller, c.prefix)
      [] c.op = "recover_prefix_owner_with_fee" ->
            recover_prefix_owner_with_fee_result(c.key, c.caller, c.prefix, c.key)
      [] OTHER -> "Failed"

RECURSIVE SumLamports(_, _)
SumLamports(bal, S) ==
    IF S = {} THEN 0
    ELSE LET pk == CHOOSE q \in S : TRUE
         IN  bal[pk] + SumLamports(bal, S \ {pk})

\* C12: every operation is all-or-nothing: a step changes the state only when
\* the call it records passed all its preconditions, and then with its whole
\* effect; no fee reaches the treasury without the matching record creation or
\* owner change, no record is created and no owner changed without the fee, no
\* refund is paid without the record being destroyed and no record destroyed
\* without its refund, and lamports only move between the treasury and principals.
AllOrNothingC12 ==
    [][/\ CallResult(last') = "Ok"
       /\ treasury' + SumLamports(lamports', Pubkeys) = treasury + SumLamports(lamports, Pubkeys)
       /\ (treasury' > treasury /\ last'.op # "initialize") =>
             \/ /\ last'.op = "submit_prefix_with_fee"
                /\ last'.prefix \notin Live
                /\ last'.prefix \in DOMAIN prefix_accounts'
                /\ prefix_accounts'[last'.prefix].fee_paid = treasury' - treasury
                /\ lamports' = [lamports EXCEPT ![last'.caller] = @ - (treasury' - treasury)]
             \/ /\ last'.op = "recover_prefix_owner_with_fee"
                /\ last'.prefix \in Live
                /\ prefix_accounts' = [prefix_accounts EXCEPT ![last'.prefix].owner = last'.key]
                /\ lamports' = [lamports EXCEPT ![last'.key] = @ - (treasury' - treasury)]
       /\ (DOMAIN prefix_accounts' \ Live # {}) =>
             /\ last'.op = "submit_prefix_with_fee"
             /\ treasury' = treasury + fee_registry.current_fee
             /\ fee_registry.current_fee > 0
       /\ (\E p \in Live \cap DOMAIN prefix_accounts' :
              prefix_accounts'[p].owner # prefix_accounts[p].owner) =>
             /\ last'.op = "recover_prefix_owner_with_fee"
             /\ treasury' = treasury + fee_registry.current_fee
       /\ (last'.op = "refund_prefix_fee") =>
             /\ last'.prefix \in Live
             /\ last'.prefix \notin DOMAIN prefix_accounts'
             /\ treasury' = treasury - prefix_accounts[last'.prefix].fee_paid
       /\ (Live \ DOMAIN prefix_accounts' # {}) =>
             /\ last'.op = "refund_prefix_fee"
             /\ Live \ DOMAIN prefix_accounts' = {last'.prefix}
             /\ lamports' = [lamports EXCEPT
                   ![prefix_accounts[last'.prefix].owner] = @ + prefix_accounts[last'.prefix].fee_paid]
      ]_vars

\* C12 witness: a recovery has moved its fee and the owner together
RecoveredC12 ==
    /\ last.op = "recover_prefix_owner_with_fee"
    /\ last.amount > 0
    /\ prefix_accounts[last.prefix].owner = last.key
    /\ prefix_accounts[last.prefix].fee_paid > 0
    /\ last.was = "Rejected"

\* C13: a record's status changes only along Pending->Active (approve),
\* Pending->Rejected (reject), Active->Inactive (deactivate), Inactive->Active
\* (reactivate), Active->Pending (metadata update), expired Pending->destroyed
\* and Rejected->destroyed (refund); a record is created Pending; so a Rejected
\* record never becomes Pending, Active or Inactive.
StatusEdgesC13 ==
    [][/\ \A p \in Live \cap DOMAIN prefix_accounts' :
            LET s == prefix_accounts[p].status
                t == prefix_accounts'[p].status
            IN  s # t =>
                  /\ last'.prefix = p
                  /\ \/ s = "Pending" /\ t = "Active" /\ last'.op = "approve_prefix"
                     \/ s = "Pending" /\ t = "Rejected" /\ last'.op = "reject_prefix"
                     \/ s = "Active" /\ t = "Inactive" /\ last'.op = "deactivate_prefix"
                     \/ s = "Inactive" /\ t = "Active" /\ last'.op = "reactivate_prefix"
                     \/ s = "Active" /\ t = "Pending" /\ last'.op = "update_prefix_metadata"
       /\ \A p \in Live \ DOMAIN prefix_accounts' :
            /\ last'.op = "refund_prefix_fee" /\ last'.prefix = p
            /\ \/ prefix_accounts[p].status = "Rejected"
               \/ prefix_accounts[p].status = "Pending" /\ now > prefix_accounts[p].expiry_at
       /\ \A p \in DOMAIN prefix_accounts' \ Live :
            /\ last'.op = "submit_prefix_with_fee" /\ last'.prefix = p
            /\ prefix_accounts'[p].status = "Pending"
       /\ \A p \in DOMAIN prefix_accounts' : 
            prefix_accounts'[p].status \in {"Pending", "Active", "Inactive", "Rejected"}
      ]_vars

\* C13 witness: an Inactive record has just been reactivated
ReactivatedC13 ==
    /\ last.op = "reactivate_prefix"
    /\ last.was = "Inactive"
    /\ prefix_accounts[last.prefix].status = "Active"

\* metadata a submission or an update accepts, with a batch attesting it
ValidMetadata == {<<UriHttps, H1>>, <<UriIpfs, H2>>}
Attested(owner, hash) == <<Ed25519Instruction(owner, hash)>>

RecoverOwnerC15 ==
    /\ [](\A p \in Live, a \in Pubkeys, signer \in Owners, n \in Owners :
            recover_prefix_owner_with_fee_result(signer, a, p, n) =
               (IF a # fee_registry.admin THEN "UnauthorizedAdmin"
                ELSE IF fee_registry.pause THEN "FeeOperationsPaused"
                ELSE IF signer # n THEN "UnauthorizedOwnerAction"
                ELSE IF ~(fee_registry.current_fee > 0
                          /\ lamports[signer] >= fee_registry.current_fee)
                     THEN "InsufficientFee"
                ELSE "Ok"))
    /\ [](\A p \in Live, c \in Pubkeys, m \in ValidMetadata :
            LET acct == prefix_accounts[p]
                meta == update_prefix_metadata_result(c, p, m[1], m[2], Attested(c, m[2]))
                auth == update_prefix_authority_result(c, p, << >>)
                refund == refund_prefix_fee_result(c, p)
            IN  IF c # acct.owner
                THEN /\ meta = "UnauthorizedOwnerAction"
                     /\ auth = "UnauthorizedOwnerAction"
                     /\ refund # "Ok"
                ELSE /\ meta = (IF acct.status = "Rejected" THEN "InvalidPrefixStatus" ELSE "Ok")
                     /\ auth = (IF acct.status = "Rejected" THEN "InvalidPrefixStatus" ELSE "Ok")
                     /\ (/\ ~fee_registry.pause /\ RefundDue(acct)
                         /\ acct.fee_paid > 0 /\ treasury >= acct.fee_paid) => refund = "Ok")
    /\ [][last'.op = "recover_prefix_owner_with_fee" =>
            /\ last'.prefix \in Live
            /\ last'.caller = fee_registry.admin
            /\ treasury' = treasury + fee_registry.current_fee
            /\ lamports' = [lamports EXCEPT ![last'.key] = @ - fee_registry.current_fee]
            /\ prefix_accounts' = [prefix_accounts EXCEPT ![last'.prefix].owner = last'.key]
            /\ UNCHANGED <<fee_registry, verifiers>>]_vars
    /\ [][last'.op = "refund_prefix_fee" =>
            lamports'[last'.caller] = lamports[last'.caller] + prefix_accounts[last'.prefix].fee_paid]_vars

\* C15 witness: bob has taken over a record alice paid for, and alice is refused
TakenOverC15 ==
    /\ last.op = "recover_prefix_owner_with_fee"
    /\ last.key = "bob"
    /\ prefix_accounts[last.prefix].owner = "bob"
    /\ lamports["alice"] = 0 /\ lamports["bob"] = 0
    /\ update_prefix_authority_result("alice", last.prefix, << >>) = "UnauthorizedOwnerAction"
    /\ update_prefix_authority_result("bob", last.prefix, << >>) = "Ok"

\* C16: withdraw_treasury(amount, to) by the admin with the registry unpaused
\* succeeds iff amount <= treasury balance and the destination account is `to`,
\* and fails with InsufficientTreasuryBalance if amount > balance; a successful
\* withdrawal moves exactly amount from the treasury to the destination and
\* changes no record, fee or verifier entry; the balance is never negative.
WithdrawBoundedC16 ==
    /\ []((fee_registry # NoAccount /\ ~fee_registry.pause) =>
            \A amount \in 0..(treasury + 1), to_acc \in WithdrawDestinations,
               to \in WithdrawDestinations :
                LET res == withdraw_treasury_result(fee_registry.admin, amount, to_acc, to)
                IN  /\ (res = "Ok") <=> (amount <= treasury /\ to_acc = to)
                    /\ (amount > treasury) => res = "InsufficientTreasuryBalance")
    /\ [](treasury >= 0)
    /\ [][last'.op = "withdraw_treasury" =>
            /\ last'.amount <= treasury
            /\ treasury' = treasury - last'.amount
            /\ lamports' = [lamports EXCEPT ![last'.key] = @ + last'.amount]
            /\ UNCHANGED <<prefix_accounts, fee_registry, verifiers>>]_vars

\* C16 witness: the admin has withdrawn the whole balance while a record is live
DrainedC16 ==
    /\ last.op = "withdraw_treasury"
    /\ last.amount > TreasuryRent
    /\ treasury = 0
    /\ Live # {}

\* C17: deactivate_prefix fails with UnauthorizedAdmin for a caller other than
\* the admin, then with InvalidPrefixStatus unless the record is Active, and
\* otherwise sets status to Inactive; reactivate_prefix likewise from Inactive to
\* Active; both change nothing but the status, so a reactivated record has the
\* ref_hash it had before it was deactivated.
DeactivateReactivateC17 ==
    /\ [](\A p \in Live, c \in Pubkeys :
            /\ deactivate_prefix_result(c, p) =
                  (IF c # fee_registry.admin THEN "UnauthorizedAdmin"
                   ELSE IF prefix_accounts[p].status # "Active" THEN "InvalidPrefixStatus"
                   ELSE "Ok")
            /\ reactivate_prefix_result(c, p) =
                  (IF c # fee_registry.admin THEN "UnauthorizedAdmin"
                   ELSE IF prefix_accounts[p].status # "Inactive" THEN "InvalidPrefixStatus"
                   ELSE "Ok"))
    /\ [][last'.op = "deactivate_prefix" =>
            /\ last'.caller = fee_registry.admin
            /\ prefix_accounts[last'.prefix].status = "Active"
            /\ prefix_accounts' = [prefix_accounts EXCEPT ![last'.prefix].status = "Inactive"]
            /\ UNCHANGED <<fee_registry, verifiers, treasury, lamports>>]_vars
    /\ [][last'.op = "reactivate_prefix" =>
            /\ last'.caller = fee_registry.admin
            /\ prefix_accounts[last'.prefix].status = "Inactive"
            /\ prefix_accounts' = [prefix_accounts EXCEPT ![last'.prefix].status = "Active"]
            /\ UNCHANGED <<fee_registry, verifiers, treasury, lamports>>]_vars

\* C17 witness: a record approved with R1 is Active again after a deactivation,
\* with R1 still its ref_hash
RoundTripC17 ==
    /\ last.op = "reactivate_prefix"
    /\ prefix_accounts[last.prefix].status = "Active"
    /\ prefix_accounts[last.prefix].ref_hash = R1
    /\ prefix_accounts[last.prefix].ref_hash # ZeroHash

\* C18: update_prefix_authority by the owner fails with AuthorityKeysTooMany for
\* more than 10 keys, else with InvalidPrefixStatus on a Rejected record, and
\* otherwise (Pending, Active, Inactive) replaces authority_keys with the
\* supplied list and changes nothing else; a submit with more than 10 keys fails
\* with AuthorityKeysTooMany; so every live record has at most 10 authority keys.
AuthorityUpdateC18 ==
    /\ [](\A p \in Live : Len(prefix_accounts[p].authority_keys) <= 10)
    /\ [](\A p \in Live, keys \in AuthorityKeyInputs :
            update_prefix_authority_result(prefix_accounts[p].owner, p, keys) =
               (IF Len(keys) > 10 THEN "AuthorityKeysTooMany"
                ELSE IF prefix_accounts[p].status = "Rejected" THEN "InvalidPrefixStatus"
                ELSE "Ok"))
    /\ []((fee_registry # NoAccount /\ ~fee_registry.pause /\ PrefixABC \notin Live) =>
            \A owner \in Owners, m \in ValidMetadata :
               submit_prefix_with_fee_result(owner, PrefixABC, m[1], m[2], TooManyKeys,
                   Attested(owner, m[2])) = "AuthorityKeysTooMany")
    /\ [][last'.op = "update_prefix_authority" =>
            /\ last'.prefix \in Live
            /\ last'.caller = prefix_accounts[last'.prefix].owner
            /\ prefix_accounts[last'.prefix].status \in {"Pending", "Active", "Inactive"}
            /\ \E keys \in AuthorityKeyInputs :
                  /\ Len(keys) = last'.amount
                  /\ Len(keys) <= 10
                  /\ prefix_accounts' =
                        [prefix_accounts EXCEPT ![last'.prefix].authority_keys = keys]
            /\ UNCHANGED <<fee_registry, verifiers, treasury, lamports>>]_vars

\* C18 witness: the owner of an Active record has stored a list of 10 keys and
\* the record is still Active
FullListStoredC18 ==
    /\ last.op = "update_prefix_authority"
    /\ last.was = "Active"
    /\ last.amount = 10
    /\ prefix_accounts[last.prefix].authority_keys = FullKeys
    /\ prefix_accounts[last.prefix].status = "Active"

ConfigOperations == {"update_fee", "set_pause", "add_verifier", "remove_verifier"}

\* C19: current_fee, the paused flag and the verifier directory change only in
\* an update_fee, set_pause, add_verifier or remove_verifier step whose caller
\* is the registry admin; these four and withdraw_treasury fail with
\* UnauthorizedAdmin for every other principal; update_fee and set_pause by the
\* admin succeed whether or not the registry is paused.
AdminOnlyConfigC19 ==
    /\ [](fee_registry # NoAccount =>
            /\ \A c \in Pubkeys \ {fee_registry.admin} :
                  /\ update_fee_result(c) = "UnauthorizedAdmin"
                  /\ set_pause_result(c) = "UnauthorizedAdmin"
                  /\ \A v \in Pubkeys :
                        /\ add_verifier_result(c, v) = "UnauthorizedAdmin"
                        /\ remove_verifier_result(c, v) = "UnauthorizedAdmin"
                  /\ \A amount \in 0..treasury, to \in WithdrawDestinations :
                        withdraw_treasury_result(c, amount, to, to) = "UnauthorizedAdmin"
            /\ update_fee_result(fee_registry.admin) = "Ok"
            /\ set_pause_result(fee_registry.admin) = "Ok")
    /\ [][(/\ fee_registry # NoAccount
           /\ \/ fee_registry'.current_fee # fee_registry.current_fee
              \/ fee_registry'.pause # fee_registry.pause
              \/ verifiers' # verifiers)
            => /\ last'.caller = fee_registry.admin
               /\ last'.op \in ConfigOperations]_vars

\* C19 witness: the admin has changed the fee of a paused registry
FeeChangedWhilePausedC19 ==
    /\ last.op = "update_fee"
    /\ Paused
    /\ last.caller = fee_registry.admin
    /\ fee_registry.current_fee = last.amount
    /\ \E p \in Live : prefix_accounts[p].fee_paid # fee_registry.current_fee

\* C20: initialize succeeds exactly once: the first call creates the registry
\* configuration (admin = the given admin, current_fee = initial_fee, paused =
\* false) and an empty verifier directory with the same admin; every later
\* initialize fails; after it no step changes the admin field of either, and
\* the two stay equal.
InitializeOnceC20 ==
    /\ [](IF fee_registry = NoAccount
          THEN /\ verifiers = NoAccount
               /\ Live = {}
               /\ last.op \in {"deploy", "tick"}
          ELSE /\ verifiers # NoAccount
               /\ verifiers.admin = fee_registry.admin
               /\ \A payer \in Pubkeys : initialize_result(payer) = "AccountAlreadyInUse")
    /\ [][last'.op = "initialize" =>
            /\ fee_registry = NoAccount
            /\ fee_registry' = [admin |-> last'.key, current_fee |-> last'.amount,
                                pause |-> FALSE]
            /\ verifiers' = [admin |-> last'.key, verifiers |-> << >>]
            /\ prefix_accounts' = prefix_accounts]_vars
    /\ [][fee_registry # NoAccount =>
            /\ last'.op # "initialize"
            /\ fee_registry'.admin = fee_registry.admin
            /\ verifiers'.admin = verifiers.admin]_vars

\* C20 witness: a registry whose admin is not the payer of initialize, after a
\* verifier was added and a record approved, with a payer that could fund
\* another initialize
LongAfterInitializeC20 ==
    /\ fee_registry # NoAccount
    /\ fee_registry.admin = "vera"
    /\ Directory # {}
    /\ \E p \in Live : prefix_accounts[p].status = "Active"
    /\ \E payer \in Payers : lamports[payer] >= TreasuryRent

\* C21: the verifier directory never holds a key twice; add_verifier by the
\* admin fails for a key already in it and otherwise appends the key at the
\* end; remove_verifier by the admin fails with UnauthorizedVerifier for a key
\* not in it and otherwise removes exactly that entry, the others keeping their
\* order; the list changes in no other step.
DirectoryListC21 ==
    /\ [](LET list == verifiers.verifiers
          IN  /\ \A i, j \in DOMAIN list : list[i] = list[j] => i = j
              /\ \A v \in DirCandidates :
                    /\ v \in Range(list) =>
                          add_verifier_result(fee_registry.admin, v) = "InvalidPrefixStatus"
                    /\ v \notin Range(list) =>
                          remove_verifier_result(fee_registry.admin, v)
                              = "UnauthorizedVerifier")
    /\ [][LET list == verifiers.verifiers
              v == last'.key
          IN  /\ last'.op = "add_verifier" =>
                    /\ v \notin Range(list)
                    /\ verifiers'.verifiers = list \o <<v>>
              /\ last'.op = "remove_verifier" =>
                    /\ v \in Range(list)
                    /\ Len(verifiers'.verifiers) = Len(list) - 1
                    /\ verifiers'.verifiers = SelectSeq(list, LAMBDA x : x # v)
              /\ verifiers'.verifiers # list =>
                    last'.op \in {"add_verifier", "remove_verifier"}]_vars

\* C21 witness: the first of at least three keys has been removed and the
\* others moved up in their order
RemovedFromFrontC21 ==
    /\ last.op = "remove_verifier"
    /\ Len(verifiers.verifiers) >= 2
    /\ verifiers.verifiers[1] = "bob"
    /\ verifiers.verifiers[2] = "alice"
    /\ last.key = "vera"

\* the codes the program itself returns (errors.rs)
ErrorCode ==
    {"UnauthorizedAdmin", "UnauthorizedVerifier", "InvalidPrefixFormat",
     "PrefixAlreadyExists", "InvalidPrefixStatus", "InsufficientFee",
     "InvalidMetadataHashLength", "InvalidMetadataUri", "InvalidTreasuryAccount",
     "InsufficientTreasuryBalance", "RefundNotAllowed", "UnauthorizedOwnerAction",
     "MissingBump", "FeeOperationsPaused", "PrefixExpired", "AuthorityKeysTooMany",
     "InvalidEd25519Signature"}

\* C22: the directory never holds more than MAX_VERIFIERS entries, and an
\* add_verifier of a new key by the admin to a directory holding MAX_VERIFIERS
\* entries is refused by a validation of the program, with one of its own error
\* codes.
ExplicitCapacityC22 ==
    /\ Len(verifiers.verifiers) <= MAX_VERIFIERS
    /\ Len(verifiers.verifiers) = MAX_VERIFIERS =>
          \A v \in DirCandidates \ Range(verifiers.verifiers) :
              add_verifier_result(fee_registry.admin, v) \in ErrorCode

(***************************************************************************)
(* The input validation of submit_prefix_with_fee: submissions with every  *)
(* kind of prefix, URI and key list, each carrying the owner's attestation *)
(* of its metadata hash, in a registry that initialize("admin", 1) has set *)
(* up and whose fee the admin changes                                      *)
(***************************************************************************)
PrefixMax == [i \in 1..MAX_PREFIX_LEN |-> "Z"]
PrefixMixed == <<"A", "b", "C">>
PrefixDigits == <<"0", "9", "A">>
SubmitPrefixes == PrefixInputs \cup {PrefixMax, PrefixMixed, PrefixDigits}

UriMax == HttpsScheme \o [i \in 1..(MAX_URI_LEN - 8) |-> "a"]
SubmitMetadata == MetadataInputs \cup {<<UriMax, H1>>}

InitSubmit ==
    /\ fee_registry = [admin |-> "admin", current_fee |-> 1, pause |-> FALSE]
    /\ verifiers = [admin |-> "admin", verifiers |-> << >>]
    /\ treasury = TreasuryRent
    /\ lamports = [pk \in Pubkeys |-> IF pk \in Owners THEN InitLamports ELSE 0]
    /\ prefix_accounts = [p \in {} |-> NoAccount]
    /\ now = 0
    /\ last = [Call("initialize", "admin", << >>) EXCEPT !.amount = 1, !.key = "admin"]
    /\ sig = NoSig

NextSubmit ==
    \/ \E admin \in Pubkeys, new_fee \in 0..MaxFee : update_fee_handler(admin, new_fee)
    \/ \E owner \in Owners, prefix \in SubmitPrefixes, m \in SubmitMetadata,
          keys \in AuthorityKeyInputs :
           submit_prefix_with_fee_handler(owner, prefix, m[1], m[2], keys,
                                          Attested(owner, m[2]))

SpecSubmit == InitSubmit /\ [][NextSubmit]_vars

\* C23: submit_prefix_with_fee accepts a prefix exactly when it is its own
\* normalization, that is 3 to 12 characters, each in A-Z or 0-9, and refuses
\* any other, lowercase and mixed case included, with InvalidPrefixFormat; it
\* refuses a URI longer than 255 bytes or not starting with https:// or
\* ipfs:// with InvalidMetadataUri, more than 10 authority keys with
\* AuthorityKeysTooMany and a current_fee of 0 with InsufficientFee; records
\* and balances change only in a submission that passed all of these, and the
\* record holds the prefix as it was given.
SubmitValidationC23 ==
    /\ [](LET WellFormed(p) ==
                  /\ Len(p) >= 3 /\ Len(p) <= 12
                  /\ \A i \in DOMAIN p : p[i] \in Range(Upper) \cup Range(Digits)
              UriAllowed(u) ==
                  /\ Len(u) <= 255
                  /\ \/ starts_with(u, <<"h","t","t","p","s",":","/","/">>)
                     \/ starts_with(u, <<"i","p","f","s",":","/","/">>)
          IN  \A owner \in Owners, p \in SubmitPrefixes \ Live, m \in SubmitMetadata,
                 keys \in AuthorityKeyInputs :
                LET r == submit_prefix_with_fee_result(owner, p, m[1], m[2], keys,
                                                       Attested(owner, m[2]))
                IN  /\ WellFormed(p) <=>
                          normalize_prefix(p).ok /\ normalize_prefix(p).value = p
                    /\ r = "Ok" => WellFormed(p)
                    /\ ~WellFormed(p) => r = "InvalidPrefixFormat"
                    /\ WellFormed(p) /\ ~UriAllowed(m[1]) => r = "InvalidMetadataUri"
                    /\ WellFormed(p) /\ UriAllowed(m[1]) /\ Len(keys) > 10 =>
                          r = "AuthorityKeysTooMany"
                    /\ (/\ WellFormed(p) /\ UriAllowed(m[1]) /\ Len(keys) <= 10
                        /\ fee_registry.current_fee = 0) => r = "InsufficientFee"
                    /\ (/\ WellFormed(p) /\ UriAllowed(m[1]) /\ Len(keys) <= 10
                        /\ fee_registry.current_fee > 0
                        /\ lamports[owner] >= fee_registry.current_fee) => r = "Ok")
    /\ [][/\ last'.op = "submit_prefix_with_fee" =>
                /\ Len(last'.prefix) >= 3 /\ Len(last'.prefix) <= 12
                /\ \A i \in DOMAIN last'.prefix :
                      last'.prefix[i] \in Range(Upper) \cup Range(Digits)
                /\ Len(last'.uri) <= 255
                /\ \/ starts_with(last'.uri, <<"h","t","t","p","s",":","/","/">>)
                   \/ starts_with(last'.uri, <<"i","p","f","s",":","/","/">>)
                /\ fee_registry.current_fee > 0
                /\ DOMAIN prefix_accounts' = Live \cup {last'.prefix}
                /\ prefix_accounts'[last'.prefix].prefix = last'.prefix
                /\ prefix_accounts'[last'.prefix].metadata_uri = last'.uri
                /\ Len(prefix_accounts'[last'.prefix].authority_keys) <= 10
          /\ (\/ prefix_accounts' # prefix_accounts
              \/ treasury' # treasury
              \/ lamports' # lamports) => last'.op = "submit_prefix_with_fee"]_vars

\* C23 witness: a prefix of 12 characters with a URI of 255 bytes and 10 keys
\* has been accepted, and the fee is now 0
LongestAcceptedC23 ==
    /\ PrefixMax \in Live
    /\ prefix_accounts[PrefixMax].metadata_uri = UriMax
    /\ prefix_accounts[PrefixMax].authority_keys = FullKeys
    /\ PrefixMixed \notin Live
    /\ fee_registry.current_fee = 0
    /\ \E owner \in Owners : lamports[owner] > 0

ReadAtExecutionC26 ==
    /\ [](\A p \in Live, v \in Pubkeys :
            (~Paused /\ prefix_accounts[p].status = "Pending") =>
               /\ reject_prefix_result(v, p) = "Ok" <=> v \in Directory
               /\ v \notin Directory => reject_prefix_result(v, p) = "UnauthorizedVerifier"
               /\ not_expired(prefix_accounts[p]) =>
                     /\ approve_prefix_result(v, p) = "Ok" <=> v \in Directory
                     /\ v \notin Directory =>
                           approve_prefix_result(v, p) = "UnauthorizedVerifier")
    /\ [](last.op = "remove_verifier" => last.key \notin Directory)
    /\ [](last.op = "add_verifier" => last.key \in Directory)
    /\ [][/\ last'.op \in {"approve_prefix", "reject_prefix"} =>
                last'.caller \in Directory
          /\ last'.op \in {"add_verifier", "remove_verifier", "update_fee"} =>
                /\ prefix_accounts' = prefix_accounts
                /\ treasury' = treasury
                /\ lamports' = lamports
          /\ last'.op = "submit_prefix_with_fee" =>
                /\ last'.amount = fee_registry.current_fee
                /\ prefix_accounts'[last'.prefix].fee_paid = fee_registry.current_fee
                /\ treasury' = treasury + fee_registry.current_fee
                /\ lamports'[last'.caller] = lamports[last'.caller]
                                               - fee_registry.current_fee]_vars

\* C26 witness: the verifier whose approval made a record Active has just been
\* removed, the record is still Active, and the fee is no longer the one the
\* record was charged
RemovedAfterApprovalC26 ==
    /\ last.op = "remove_verifier"
    /\ Directory = {}
    /\ \E p \in Live :
          /\ prefix_accounts[p].status = "Active"
          /\ prefix_accounts[p].ref_hash # ZeroHash
          /\ prefix_accounts[p].fee_paid # fee_registry.current_fee

(***************************************************************************)
(* The life of one record: the instructions that read or write a prefix    *)
(* account, on one prefix, with two reference hashes for approve_prefix    *)
(* and two metadata for submit and update                                  *)
(***************************************************************************)
RecordRefHashes == {R1, R2}
RecordKeys == {<< >>, <<"vera">>}

NextRecord ==
    \/ Tick
    \/ initialize_handler("admin", "admin", 1)
    \/ \E admin \in Pubkeys, v \in VerifierCandidates : add_verifier_handler(admin, v)
    \/ \E owner \in Owners, m \in ValidMetadata :
           submit_prefix_with_fee_handler(owner, PrefixABC, m[1], m[2], << >>,
                                          Attested(owner, m[2]))
    \/ \E verifier \in Pubkeys, ref_hash \in RecordRefHashes :
           approve_prefix_handler(verifier, PrefixABC, ref_hash)
    \/ \E verifier \in Pubkeys : reject_prefix_handler(verifier, PrefixABC)
    \/ \E owner \in Pubkeys : refund_prefix_fee_handler(owner, PrefixABC)
    \/ \E owner \in Owners, m \in ValidMetadata :
           update_prefix_metadata_handler(owner, PrefixABC, m[1], m[2],
                                          Attested(owner, m[2]))
    \/ \E owner \in Owners, keys \in RecordKeys :
           update_prefix_authority_handler(owner, PrefixABC, keys)
    \/ \E admin \in Pubkeys : deactivate_prefix_handler(admin, PrefixABC)
    \/ \E admin \in Pubkeys : reactivate_prefix_handler(admin, PrefixABC)
    \/ \E signer \in Owners, admin \in Pubkeys :
           recover_prefix_owner_with_fee_handler(signer, admin, PrefixABC, signer)

SpecRecord == Init /\ [][NextRecord]_vars

ReviewOf(metadata_hash) == IF metadata_hash = H2 THEN R2 ELSE R1

ReviewedRefHash(prefix) ==
    IF prefix \in Live THEN ReviewOf(prefix_accounts[prefix].metadata_hash) ELSE R1

NextReview ==
    \/ Tick
    \/ initialize_handler("admin", "admin", 1)
    \/ \E admin \in Pubkeys, v \in VerifierCandidates : add_verifier_handler(admin, v)
    \/ \E owner \in Owners, m \in ValidMetadata :
           submit_prefix_with_fee_handler(owner, PrefixABC, m[1], m[2], << >>,
                                          Attested(owner, m[2]))
    \/ \E verifier \in Pubkeys :
           approve_prefix_handler(verifier, PrefixABC, ReviewedRefHash(PrefixABC))
    \/ \E verifier \in Pubkeys : reject_prefix_handler(verifier, PrefixABC)
    \/ \E owner \in Pubkeys : refund_prefix_fee_handler(owner, PrefixABC)
    \/ \E owner \in Owners, m \in ValidMetadata :
           update_prefix_metadata_handler(owner, PrefixABC, m[1], m[2],
                                          Attested(owner, m[2]))
    \/ \E owner \in Owners, keys \in RecordKeys :
           update_prefix_authority_handler(owner, PrefixABC, keys)
    \/ \E admin \in Pubkeys : deactivate_prefix_handler(admin, PrefixABC)
    \/ \E admin \in Pubkeys : reactivate_prefix_handler(admin, PrefixABC)
    \/ \E signer \in Owners, admin \in Pubkeys :
           recover_prefix_owner_with_fee_handler(signer, admin, PrefixABC, signer)

SpecReview == Init /\ [][NextReview]_vars

\* C28: an Active record holds the metadata it had at its most recent
\* approve_prefix: where every approval passes the reference of the metadata
\* hash it reviewed, the ref_hash of an Active record is the reference of the
\* metadata hash the record holds.
ActiveMetadataApprovedC28 ==
    \A p \in Live :
        prefix_accounts[p].status = "Active" =>
            prefix_accounts[p].ref_hash = ReviewOf(prefix_accounts[p].metadata_hash)

\* C29: right after update_prefix_metadata has reset an Active record to
\* Pending, with the registry unpaused, approve_prefix by every directory
\* verifier succeeds and refund_prefix_fee by the owner fails with
\* RefundNotAllowed, however long after the submission the update happens.
ReapprovableAfterResetC29 ==
    (/\ last.op = "update_prefix_metadata"
     /\ last.was = "Active"
     /\ ~Paused)
      => /\ \A v \in Directory : approve_prefix_result(v, last.prefix) = "Ok"
         /\ refund_prefix_fee_result(prefix_accounts[last.prefix].owner, last.prefix)
                = "RefundNotAllowed"

\* C30: prefix, fee_paid, created_at and expiry_at of a record are written by
\* the submit_prefix_with_fee that creates it (the prefix submitted, the
\* current_fee and the time of that step) and changed by no later step, so
\* expiry_at = created_at + 1,209,600 in every state, and a refund pays the
\* fee_paid of the record to its current owner whatever current_fee is then.
WrittenOnceC30 ==
    /\ [](\A p \in Live :
            /\ prefix_accounts[p].prefix = p
            /\ prefix_accounts[p].expiry_at = prefix_accounts[p].created_at + 1209600
            /\ prefix_accounts[p].created_at <= now)
    /\ [][/\ \A p \in Live \cap DOMAIN prefix_accounts' :
                /\ prefix_accounts'[p].prefix = prefix_accounts[p].prefix
                /\ prefix_accounts'[p].fee_paid = prefix_accounts[p].fee_paid
                /\ prefix_accounts'[p].created_at = prefix_accounts[p].created_at
                /\ prefix_accounts'[p].expiry_at = prefix_accounts[p].expiry_at
          /\ \A p \in DOMAIN prefix_accounts' \ Live :
                /\ last'.op = "submit_prefix_with_fee" /\ last'.prefix = p
                /\ prefix_accounts'[p].fee_paid = fee_registry.current_fee
                /\ prefix_accounts'[p].created_at = now
          /\ last'.op \in {"approve_prefix", "reject_prefix", "update_prefix_metadata",
                           "update_prefix_authority", "deactivate_prefix",
                           "reactivate_prefix", "recover_prefix_owner_with_fee",
                           "update_fee", "set_pause"} =>
                DOMAIN prefix_accounts' = Live
          /\ last'.op = "refund_prefix_fee" =>
                /\ last'.amount = prefix_accounts[last'.prefix].fee_paid
                /\ last'.caller = prefix_accounts[last'.prefix].owner
                /\ treasury' = treasury - prefix_accounts[last'.prefix].fee_paid
                /\ lamports'[last'.caller] = lamports[last'.caller]
                                               + prefix_accounts[last'.prefix].fee_paid]_vars

\* C30 witness: bob, who took over the record alice paid for, has been refunded
\* the fee of the submission after the admin set current_fee to another value
RefundedOldFeeC30 ==
    /\ last.op = "refund_prefix_fee"
    /\ last.caller = "bob"
    /\ last.amount > 0
    /\ last.amount # fee_registry.current_fee
    /\ lamports["alice"] < InitLamports

\* C31: a step of a paused registry changes neither the treasury nor any
\* balance, creates and removes no record and changes no record's owner; the
\* only status changes it makes are Active -> Pending by update_prefix_metadata,
\* Active -> Inactive by deactivate_prefix and Inactive -> Active by
\* reactivate_prefix; a record changes only in update_prefix_metadata or
\* update_prefix_authority signed by its owner or in deactivate_prefix or
\* reactivate_prefix signed by the admin, and the configuration and the
\* directory only in update_fee, set_pause, add_verifier and remove_verifier;
\* all of these still succeed while paused.
FrozenWhilePausedC31 ==
    /\ [](Paused =>
            /\ \A p \in Live :
                  LET acct == prefix_accounts[p]
                  IN  /\ acct.status # "Rejected" =>
                            \A m \in ValidMetadata :
                                update_prefix_metadata_result(acct.owner, p, m[1], m[2],
                                    Attested(acct.owner, m[2])) = "Ok"
                      /\ acct.status # "Rejected" =>
                            update_prefix_authority_result(acct.owner, p, << >>) = "Ok"
                      /\ acct.status = "Active" =>
                            deactivate_prefix_result(fee_registry.admin, p) = "Ok"
                      /\ acct.status = "Inactive" =>
                            reactivate_prefix_result(fee_registry.admin, p) = "Ok"
            /\ \A v \in VerifierCandidates :
                  IF v \in Directory
                  THEN remove_verifier_result(fee_registry.admin, v) = "Ok"
                  ELSE add_verifier_result(fee_registry.admin, v) = "Ok")
    /\ [][Paused =>
            /\ treasury' = treasury
            /\ lamports' = lamports
            /\ DOMAIN prefix_accounts' = Live
            /\ \A p \in Live :
                  LET old == prefix_accounts[p]
                      new == prefix_accounts'[p]
                  IN  /\ new.owner = old.owner
                      /\ new.status # old.status =>
                            \/ /\ old.status = "Active" /\ new.status = "Pending"
                               /\ last'.op = "update_prefix_metadata"
                            \/ /\ old.status = "Active" /\ new.status = "Inactive"
                               /\ last'.op = "deactivate_prefix"
                            \/ /\ old.status = "Inactive" /\ new.status = "Active"
                               /\ last'.op = "reactivate_prefix"
                      /\ new # old =>
                            /\ last'.prefix = p
                            /\ \/ /\ last'.op \in {"update_prefix_metadata",
                                                   "update_prefix_authority"}
                                  /\ last'.caller = old.owner
                               \/ /\ last'.op \in {"deactivate_prefix", "reactivate_prefix"}
                                  /\ last'.caller = fee_registry.admin
            /\ (fee_registry' # fee_registry \/ verifiers' # verifiers) =>
                  /\ last'.op \in ConfigOperations
                  /\ last'.caller = fee_registry.admin]_vars

\* C31 witness: in a paused registry the owner's metadata update has just taken
\* an Active record back to Pending, with a fee in the treasury and a verifier
\* in the directory
ResetWhilePausedC31 ==
    /\ Paused
    /\ last.op = "update_prefix_metadata"
    /\ last.was = "Active"
    /\ prefix_accounts[last.prefix].status = "Pending"
    /\ treasury > 0
    /\ Directory # {}

\* C32: the treasury holds the balance initialize gave it, plus every fee a
\* submit_prefix_with_fee or recover_prefix_owner_with_fee paid in, minus every
\* amount a refund_prefix_fee or withdraw_treasury paid out: each step moves
\* exactly that amount and no other step moves any, so the balance is the rent
\* plus what the owners have paid net of refunds minus what the admin, who is
\* the payer of initialize and the destination of every withdrawal, has
\* received; as long as nothing has been withdrawn, the balance above the rent
\* is at least the sum of fee_paid over all live records and every refund that
\* is due succeeds.
EscrowAccountingC32 ==
    /\ [](fee_registry # NoAccount =>
            LET paid_in == SumLamports([o \in Owners |-> InitLamports - lamports[o]], Owners)
                withdrawn == lamports["admin"]
            IN  /\ treasury = TreasuryRent + paid_in - withdrawn
                /\ withdrawn = 0 =>
                      /\ treasury - TreasuryRent >= SumFeesPaid(Live)
                      /\ \A p \in Live :
                            (~Paused /\ RefundDue(prefix_accounts[p])) =>
                                refund_prefix_fee_result(prefix_accounts[p].owner, p) = "Ok")
    /\ [][treasury' - treasury =
            (CASE last'.op = "initialize" -> TreasuryRent
               [] last'.op \in {"submit_prefix_with_fee", "recover_prefix_owner_with_fee"} ->
                      fee_registry.current_fee
               [] last'.op = "refund_prefix_fee" -> 0 - prefix_accounts[last'.prefix].fee_paid
               [] last'.op = "withdraw_treasury" -> 0 - last'.amount
               [] OTHER -> 0)]_vars

\* C32 witness: with nothing withdrawn, the treasury holds the fee of a live
\* record and the fee of its recovery on top of the rent
SurplusC32 ==
    /\ fee_registry # NoAccount
    /\ lamports["admin"] = 0
    /\ last.op = "recover_prefix_owner_with_fee"
    /\ Live # {}
    /\ SumFeesPaid(Live) > 0
    /\ treasury - TreasuryRent > SumFeesPaid(Live)

====
